---- MODULE Spec2Model ----
(***************************************************************************)
(* The operation-processing pipeline and the subscription registry of the  *)
(* JRPC server (class Server).  One batch is one call of processRequest;   *)
(* an action of the model is one resumption of that call: it takes the     *)
(* outcome of the hook or handler the call was awaiting and runs the code  *)
(* on to the next hook or handler call (or to the end of the request).     *)
(* Socket connect, message and close events are the other actions.         *)
(***************************************************************************)
EXTENDS Integers, Sequences, FiniteSets, TLC

VARIABLES
    hooks,                   \* which of beforeAllFunc .. onErrorFunc are set
    registeredProcedures,    \* Map<ApiVersion, Map<ProcedureName, handler>>
    registeredSubscriptions, \* Map<ApiVersion, Map<SubscriptionTopic, handler>>
    socketState,             \* life cycle of each websocket: new / open / closed
    connectedSockets,        \* Map<string, ServerWebSocket>, as its key set
    subscriptionsByTopics,   \* Map<topic, {context, socket}[]>
    socketsInSubscriptions,  \* Map<ServerWebSocketId, {topic}[]>
    batch,                   \* the calls of processRequest, one record each
    published,               \* the publishMessage calls so far, and the last one
    registrations,           \* the handlers registered so far, in call order
    configuration            \* the configuration the constructor was given

vars == <<hooks, registeredProcedures, registeredSubscriptions, socketState,
          connectedSockets, subscriptionsByTopics, socketsInSubscriptions, batch,
          published, registrations, configuration>>

(***************************************************************************)
(* Bounds of the model.                                                    *)
(***************************************************************************)
NumSockets == 2
NumBatches == 2
MaxOps == 2
MaxSubmitted == 3
MaxPublishes == 2

Sockets == 1 .. NumSockets
Batches == 1 .. NumBatches

Min(S) == CHOOSE x \in S : \A y \in S : x <= y

\* processRequest's socket parameter is optional: an HTTP request has none.
NoSocket == 0

ApiVersions == {"v1", "v2"}
ProcedureNames == {"p1", "p2"}
Topics == {"t1", "t2"}

(***************************************************************************)
(* Errors.                                                                 *)
(***************************************************************************)
NoDetails == [error_name |-> "undefined", error_message |-> "undefined"]

\* class JRPCError extends Error: code, message, options {details, suggestions}
JRPCError(code, message, suggestions, details) ==
    [kind |-> "typed", name |-> "JRPCError", code |-> code, message |-> message,
     suggestions |-> suggestions, details |-> details]

\* a thrown value that is no JRPCError: it has a constructor name and a message
PlainError(name, message) ==
    [kind |-> "untyped", name |-> name, code |-> "undefined", message |-> message,
     suggestions |-> "undefined", details |-> NoDetails]

\* what a hook or handler call yields when it returns normally
Ok == [kind |-> "ok", name |-> "undefined", code |-> "undefined",
       message |-> "undefined", suggestions |-> "undefined", details |-> NoDetails]

ProcedureNotFound ==
    JRPCError("JRPC_PROCEDURE_NOT_FOUND", "Procedure not found.", "[]", NoDetails)

SubscriptionNotFound ==
    JRPCError("JRPC_SUBSCRIPTION_NOT_FOUND", "Subscription not found.", "[]", NoDetails)

OperationTypeNotSupported ==
    JRPCError("JRPC_OPERATION_NOT_SUPPORTED", "Operation type not supported.", "[]",
              NoDetails)

NotAuthenticatedError ==
    JRPCError("JRPC_NOT_AUTHENTICATED", "Not authenticated.", "undefined", NoDetails)

NotAuthorizedError ==
    JRPCError("JRPC_NOT_AUTHORIZED", "Not authorized.", "undefined", NoDetails)

getErrorDetails(e) == [error_name |-> e.name, error_message |-> e.message]

UnhandledError(e) ==
    JRPCError("JRPC_UNHANDLED_ERROR", "An unhandled error occurred.", "undefined",
              getErrorDetails(e))

toErrorResponse(error) ==
    [code |-> error.code, message |-> error.message,
     suggestion |-> error.suggestions, details |-> error.details]

\* the `e instanceof JRPCError` test
IsJRPCError(e) == e.kind = "typed"

(***************************************************************************)
(* Resources and operation outputs.                                        *)
(***************************************************************************)
User1 == [_resource_id |-> "1", _resource_name |-> "user", name |-> "Al"]
Post2 == [_resource_id |-> "2", _resource_name |-> "post", title |-> "T"]
User3 ==
    [_resource_id |-> "3", _resource_name |-> "user", name |-> "Bo",
     email |-> "bo@example.org"]

getResourceReference(resource) ==
    resource._resource_name \o ":" \o
    (IF resource._resource_id # "" THEN resource._resource_id ELSE "unknown")

\* OperationOutput: undefined, or a record of references to resources, kept
\* as the list of its entries in key order
Undefined == [defined |-> FALSE, items |-> <<>>]

\* operationResult[ref] = resource for each resource in turn: a reference that
\* is a key already keeps its place and takes the later resource
RECURSIVE assignResources(_, _, _)
assignResources(items, resources, k) ==
    IF k > Len(resources) THEN items
    ELSE LET item == [ref |-> getResourceReference(resources[k]),
                      resource |-> resources[k]]
             at == {j \in DOMAIN items : items[j].ref = item.ref}
         IN  assignResources(
                 IF at = {} THEN Append(items, item)
                 ELSE [j \in DOMAIN items |-> IF j \in at THEN item ELSE items[j]],
                 resources, k + 1)

generateOperationResult(resources) ==
    [defined |-> TRUE, items |-> assignResources(<<>>, resources, 1)]

\* an operation result in which every reference is mapped to null
NullResource == [null |-> TRUE]

generateEmptyOperationResult(resources) ==
    LET items == assignResources(<<>>, resources, 1) IN
    [defined |-> TRUE,
     items |-> [k \in DOMAIN items |->
                   [ref |-> items[k].ref, resource |-> NullResource]]]

\* Object.keys(operationResult)
Keys(output) == [k \in 1 .. Len(output.items) |-> output.items[k].ref]

\* a select that keeps the two reserved fields besides the listed ones
selectPropsKeepsReserved(resource, mode, properties) ==
    IF mode = "select"
    THEN [p \in properties \cup {"_resource_id", "_resource_name"} |->
            IF p \in DOMAIN resource THEN resource[p] ELSE "undefined"]
    ELSE [p \in (DOMAIN resource) \ properties |-> resource[p]]

selectProps(resource, mode, properties) ==
    IF mode = "select"
    THEN [p \in properties |->
            IF p \in DOMAIN resource THEN resource[p] ELSE "undefined"]
    ELSE [p \in (DOMAIN resource) \ properties |-> resource[p]]

(***************************************************************************)
(* Response entries.                                                       *)
(***************************************************************************)
NoResults == [shape |-> "absent", refs |-> <<>>]
NullResults == [shape |-> "null", refs |-> <<>>]
ListResults(references) == [shape |-> "list", refs |-> references]
NoError == [code |-> "undefined", message |-> "undefined",
            suggestion |-> "undefined", details |-> NoDetails]

ResultsEntry(id, results) ==
    [id |-> id, kind |-> "results", results |-> results, error |-> NoError]
ErrorEntry(id, error) ==
    [id |-> id, kind |-> "error", results |-> NoResults, error |-> error]

(***************************************************************************)
(* Requests, and what hooks and handlers may do.                           *)
(***************************************************************************)
\* an operation: its type and the procedure / topic / resource it names
OperationKinds ==
    ([type : {"execute"}, name : ProcedureNames]) \cup
    ([type : {"subscribe"}, name : Topics]) \cup
    ([type : {"create"}, name : {"user"}])

\* the operations of a request carry ids that are unique within the batch
Operation(kind, id) == [id |-> id, type |-> kind.type, name |-> kind.name]

OperationLists ==
    UNION {[1 .. n -> OperationKinds] : n \in 1 .. MaxOps}

\* request.return: undefined, or field lists per resource type
NoReturn == <<>>
ReturnMaps == {NoReturn, [user |-> {"name"}]}

\* a hook either returns or throws a JRPCError or some other Error
HookThrows == {NotAuthenticatedError, PlainError("Error", "hook failed")}
HookOutcomes == {Ok} \cup HookThrows

\* processRequest does not look at what the before-all and after-all hooks throw
OuterHookOutcomes == {Ok, PlainError("Error", "hook failed")}

\* a procedure handler returns an output or throws
HandlerOutputs ==
    {Undefined, generateOperationResult(<<>>), generateOperationResult(<<User1>>),
     generateOperationResult(<<User1, Post2>>)}
HandlerThrows == {NotAuthorizedError, PlainError("TypeError", "boom")}

\* the onError hook returns undefined or a JRPCError of its own, or throws
CustomError == JRPCError("CUSTOM_ERROR", "custom", "undefined", NoDetails)
OnErrorThrows == {PlainError("RangeError", "onError failed")}

(***************************************************************************)
(* One call of processRequest: its local state, the response under         *)
(* construction, and the log of the calls it has completed.  A machine is  *)
(* that record together with the two subscription maps, which subscribe    *)
(* operations update.                                                      *)
(***************************************************************************)
\* The RequestContext objects are numbered by the call of processRequest that
\* made them: field context of a call is the object the call hands to its hooks
\* and handlers, field globalContext of record n is the scratch space of
\* object n.
NoContext == 0

\* one RequestContext for the whole Server, made once and handed to every call
newContextOfServer(b) == Min(Batches)

\* new RequestContext(...): a new object in every call of processRequest
newContext(b) == b

IdleBatch ==
    [pc |-> "idle", socket |-> NoSocket, api |-> "v1", operations |-> <<>>,
     ret |-> NoReturn, i |-> 1, result |-> Undefined, thrown |-> Ok,
     response |-> <<>>, resources |-> <<>>, trace |-> <<>>,
     context |-> NoContext, globalContext |-> <<>>]

BatchFields == DOMAIN IdleBatch

Machine(b) ==
    [id |-> b, byTopic |-> subscriptionsByTopics,
     bySocket |-> socketsInSubscriptions] @@ batch[b]

Log(m, ev, out) ==
    [m EXCEPT !.trace = Append(@, [ev |-> ev, i |-> m.i, out |-> out])]

Await(m, call) == [m EXCEPT !.pc = call]

(***************************************************************************)
(* Response assembly.                                                      *)
(***************************************************************************)
RECURSIVE InsertAll(_, _, _)
InsertAll(resources, items, k) ==
    IF k > Len(items) THEN resources
    ELSE InsertAll((items[k].ref :> items[k].resource) @@
                       [r \in (DOMAIN resources) \ {items[k].ref} |-> resources[r]],
                   items, k + 1)

processOperationResult(m) ==
    LET id == m.operations[m.i].id
        references == Keys(m.result)
    IN  IF ~m.result.defined
        THEN [m EXCEPT !.response = Append(@, ResultsEntry(id, NullResults))]
        ELSE [m EXCEPT
                !.response = Append(@, ResultsEntry(id,
                                 IF Len(references) > 0
                                 THEN ListResults(references) ELSE NullResults)),
                !.resources = InsertAll(@, m.result.items, 1)]

processOperationError(m, error) ==
    [m EXCEPT !.response =
        Append(@, ErrorEntry(m.operations[m.i].id, toErrorResponse(error)))]

ReservedProps == {"_resource_id", "_resource_name"}

\* a projection that leaves out the resources whose type has no allow-list
\* when the request has a return map
returnSelectedPropsDropsUnlisted(m) ==
    [m EXCEPT !.resources =
        [reference \in {x \in DOMAIN m.resources :
                           \/ m.ret = NoReturn
                           \/ m.resources[x] = NullResource
                           \/ m.resources[x]._resource_name \in DOMAIN m.ret} |->
            LET resource == m.resources[reference] IN
            IF resource = NullResource THEN resource
            ELSE IF resource._resource_name \in DOMAIN m.ret
            THEN selectProps(resource, "select", m.ret[resource._resource_name])
            ELSE selectProps(resource, "ignore", ReservedProps)]]

\* a projection that takes the first allow-list of the request for every
\* resource, whatever its type
returnSelectedPropsOneListForAll(m) ==
    [m EXCEPT !.resources =
        [reference \in DOMAIN m.resources |->
            LET resource == m.resources[reference] IN
            IF resource = NullResource THEN resource
            ELSE IF DOMAIN m.ret # {}
            THEN selectProps(resource, "select",
                             m.ret[CHOOSE n \in DOMAIN m.ret : TRUE])
            ELSE selectProps(resource, "ignore", ReservedProps)]]

returnSelectedProps(m) ==
    [m EXCEPT !.resources =
        [reference \in DOMAIN m.resources |->
            LET resource == m.resources[reference] IN
            IF resource = NullResource THEN resource
            ELSE IF resource._resource_name \in DOMAIN m.ret
            THEN selectProps(resource, "select", m.ret[resource._resource_name])
            ELSE selectProps(resource, "ignore", ReservedProps)]]

(***************************************************************************)
(* Handler registries.                                                     *)
(***************************************************************************)
\* map.set(key, value) on a Map kept as a function
MapSet(map, key, value) ==
    (key :> value) @@ [k \in (DOMAIN map) \ {key} |-> map[k]]

\* map.delete(key)
MapDelete(map, key) == [k \in (DOMAIN map) \ {key} |-> map[k]]

\* a registration that keeps the handler a name has already
RECURSIVE registerHandlersKeepsFirst(_, _, _)
registerHandlersKeepsFirst(registered, handlers, k) ==
    IF k > Len(handlers) THEN registered
    ELSE LET handler == handlers[k]
             apiHandlers == IF handler.api \in DOMAIN registered
                            THEN registered[handler.api] ELSE <<>>
         IN  registerHandlersKeepsFirst(
                 MapSet(registered, handler.api,
                        IF handler.name \in DOMAIN apiHandlers THEN apiHandlers
                        ELSE MapSet(apiHandlers, handler.name, handler)),
                 handlers, k + 1)

\* a registration that keeps one map of names for all api versions
RECURSIVE registerHandlersUnderEveryVersion(_, _, _)
registerHandlersUnderEveryVersion(registered, handlers, k) ==
    IF k > Len(handlers) THEN registered
    ELSE LET handler == handlers[k]
             apiHandlers == IF handler.api \in DOMAIN registered
                            THEN registered[handler.api] ELSE <<>>
             names == MapSet(apiHandlers, handler.name, handler)
         IN  registerHandlersUnderEveryVersion(
                 [api \in DOMAIN registered \cup {handler.api} |-> names],
                 handlers, k + 1)

RECURSIVE registerHandlers(_, _, _)
registerHandlers(registered, handlers, k) ==
    IF k > Len(handlers) THEN registered
    ELSE LET handler == handlers[k]
             apiHandlers == IF handler.api \in DOMAIN registered
                            THEN registered[handler.api] ELSE <<>>
         IN  registerHandlers(
                 MapSet(registered, handler.api,
                        MapSet(apiHandlers, handler.name, handler)),
                 handlers, k + 1)

registerProcedureHandlers(registered, procedures) ==
    registerHandlers(registered, procedures, 1)

registerSubscriptionHandlers(registered, subscriptionHandlers) ==
    registerHandlers(registered, subscriptionHandlers, 1)

\* the calls of the two register methods so far: each handler passed, in order
Registered(history, kind, handlers) ==
    history \o [k \in DOMAIN handlers |-> [kind |-> kind, handler |-> handlers[k]]]

\* the handlers the application registers before the server starts
StartupProcedures == <<[api |-> "v1", name |-> "p1"]>>
StartupSubscriptions ==
    <<[api |-> "v1", name |-> "t1"], [api |-> "v1", name |-> "t2"],
      [api |-> "v2", name |-> "t1"]>>

(***************************************************************************)
(* The subscription registry.                                              *)
(***************************************************************************)
\* array.findIndex(e => e.socket.id == id): 0-based, -1 when there is none
RECURSIVE findIndexFrom(_, _, _)
findIndexFrom(list, id, k) ==
    IF k > Len(list) THEN -1
    ELSE IF list[k].socket = id THEN k - 1
    ELSE findIndexFrom(list, id, k + 1)

\* a findIndex whose predicate holds for every element
findIndexOfAny(list, id) == IF Len(list) = 0 THEN -1 ELSE 0

findIndex(list, id) == findIndexFrom(list, id, 1)

\* array.splice(position, 1): a negative position counts from the end
splice(list, position) ==
    LET start == IF position < 0
                 THEN (IF Len(list) + position < 0 THEN 0 ELSE Len(list) + position)
                 ELSE (IF position > Len(list) THEN Len(list) ELSE position)
    IN  [k \in 1 .. (IF start < Len(list) THEN Len(list) - 1 ELSE Len(list)) |->
            IF k <= start THEN list[k] ELSE list[k + 1]]

\* a loop of the close listener that stops behind the first topic of the socket
closeSubscriptionsFirstOnly(byTopic, entries, id, k) ==
    IF k > Len(entries) THEN byTopic
    ELSE LET topic == entries[k].topic IN
         IF topic \in DOMAIN byTopic
         THEN [byTopic EXCEPT ![topic] = splice(@, findIndex(@, id))]
         ELSE byTopic

\* the loop of the close listener over the topics of the socket
RECURSIVE closeSubscriptions(_, _, _, _)
closeSubscriptions(byTopic, entries, id, k) ==
    IF k > Len(entries) THEN byTopic
    ELSE LET topic == entries[k].topic IN
         IF topic \in DOMAIN byTopic
         THEN closeSubscriptions(
                  [byTopic EXCEPT ![topic] = splice(@, findIndex(@, id))],
                  entries, id, k + 1)
         ELSE closeSubscriptions(byTopic, entries, id, k + 1)

\* a close listener that leaves the entry of the socket in
\* socketsInSubscriptions
closeListenerKeepsEntry(registry, id) ==
    LET connected == registry.connectedSockets \ {id} IN
    IF id \in DOMAIN registry.socketsInSubscriptions
    THEN [connectedSockets |-> connected,
          subscriptionsByTopics |->
              closeSubscriptions(registry.subscriptionsByTopics,
                                 registry.socketsInSubscriptions[id], id, 1),
          socketsInSubscriptions |-> registry.socketsInSubscriptions]
    ELSE [registry EXCEPT !.connectedSockets = connected]

\* a close listener that walks every topic, whether the socket is under it or
\* not
closeListenerAllTopics(registry, id) ==
    [connectedSockets |-> registry.connectedSockets \ {id},
     subscriptionsByTopics |->
         [t \in DOMAIN registry.subscriptionsByTopics |->
             splice(registry.subscriptionsByTopics[t],
                    findIndex(registry.subscriptionsByTopics[t], id))],
     socketsInSubscriptions |-> MapDelete(registry.socketsInSubscriptions, id)]

\* a close listener that leaves the socket in connectedSockets
closeListenerKeepsConnected(registry, id) ==
    IF id \in DOMAIN registry.socketsInSubscriptions
    THEN [connectedSockets |-> registry.connectedSockets,
          subscriptionsByTopics |->
              closeSubscriptions(registry.subscriptionsByTopics,
                                 registry.socketsInSubscriptions[id], id, 1),
          socketsInSubscriptions |->
              MapDelete(registry.socketsInSubscriptions, id)]
    ELSE registry

\* the socket's close listener, on the three maps it touches
closeListener(registry, id) ==
    LET connected == registry.connectedSockets \ {id} IN
    IF id \in DOMAIN registry.socketsInSubscriptions
    THEN [connectedSockets |-> connected,
          subscriptionsByTopics |->
              closeSubscriptions(registry.subscriptionsByTopics,
                                 registry.socketsInSubscriptions[id], id, 1),
          socketsInSubscriptions |->
              MapDelete(registry.socketsInSubscriptions, id)]
    ELSE [registry EXCEPT !.connectedSockets = connected]

Registry ==
    [connectedSockets |-> connectedSockets,
     subscriptionsByTopics |-> subscriptionsByTopics,
     socketsInSubscriptions |-> socketsInSubscriptions]

\* subscriptionHandler.registerSocketConnection(socket, context, operationContext):
\* the (context, socket) pair goes under the topic, the topic under the socket
registerSocketConnection(m, topic) ==
    [m EXCEPT
        !.byTopic = MapSet(@, topic,
            Append(IF topic \in DOMAIN @ THEN @[topic] ELSE <<>>,
                   [context |-> m.id, socket |-> m.socket])),
        !.bySocket = MapSet(@, m.socket,
            Append(IF m.socket \in DOMAIN @ THEN @[m.socket] ELSE <<>>,
                   [topic |-> topic]))]

\* publishMessage of a subscription handler: the event goes once to each socket
\* registered under the topic, in the order of registration; a socket that is
\* not connected is passed over, and a send that fails is passed over as well
RECURSIVE fanOut(_, _, _, _, _, _)
fanOut(list, connected, failing, k, seen, sends) ==
    IF k > Len(list) THEN sends
    ELSE LET socket == list[k].socket IN
         IF socket \in seen \/ socket \notin connected
         THEN fanOut(list, connected, failing, k + 1, seen \cup {socket}, sends)
         ELSE fanOut(list, connected, failing, k + 1, seen \cup {socket},
                     IF socket \in failing
                     THEN [sends EXCEPT !.failed = Append(@, socket)]
                     ELSE [sends EXCEPT !.received = Append(@, socket)])

NoPublish == [count |-> 0, topic |-> "none", received |-> <<>>, failed |-> <<>>]

publishMessage(registry, topic, failing) ==
    fanOut(IF topic \in DOMAIN registry.subscriptionsByTopics
           THEN registry.subscriptionsByTopics[topic] ELSE <<>>,
           registry.connectedSockets, failing, 1, {},
           [received |-> <<>>, failed |-> <<>>])

(***************************************************************************)
(* processRequest, as the stretches of code between two awaited calls.     *)
(* Each operator runs the code from one point on, up to the next call of a *)
(* hook or handler (Await) or to the end of the request.                   *)
(***************************************************************************)
RECURSIVE forOperations(_)

\* the response leaves: socket.send on a websocket, Response.json over HTTP
return(m) ==
    Log([m EXCEPT !.pc = "done"],
        IF m.socket # NoSocket THEN "send" ELSE "respond", Ok)

\* the end of processRequest without the projection
afterOperationsUnprojected(m) ==
    IF hooks.afterAll THEN Await(m, "afterAll") ELSE return(m)

\* an end of processRequest that lets the response leave before the after-all
\* hook is called
afterOperationsRespondsFirst(m) ==
    LET projected == Log(returnSelectedProps(m), "returnSelectedProps", Ok) IN
    IF hooks.afterAll THEN Await(return(projected), "afterAll")
    ELSE return(projected)

\* after the loop: the projection, then the after-all hook
afterOperations(m) ==
    LET projected == Log(returnSelectedProps(m), "returnSelectedProps", Ok) IN
    IF hooks.afterAll THEN Await(projected, "afterAll") ELSE return(projected)

\* a loop that takes each operation a second time
nextOperationOnceMore(m) ==
    LET visits == SelectSeq(m.trace,
                            LAMBDA x : x.i = m.i /\ x.ev = "processOperation")
    IN  forOperations(IF Len(visits) = 1 THEN m
                      ELSE [m EXCEPT !.i = @ + 1, !.result = Undefined,
                                     !.thrown = Ok])

\* `continue`, or the end of the loop body
nextOperation(m) ==
    forOperations([m EXCEPT !.i = @ + 1, !.result = Undefined, !.thrown = Ok])

\* the second call site of the after-each hook, behind the try/catch
afterTry(m) ==
    IF hooks.afterEach THEN Await(m, "afterEachOuter") ELSE nextOperation(m)

\* the catch block of the try around processOperation
catchOperation(m, e) ==
    afterTry(processOperationError(Log(m, "processOperation", e), e))

\* the end of the try block
recordResult(m) == afterTry(processOperationResult(m))

\* processOperation returned: the first call site of the after-each hook
afterOperation(m, result) ==
    LET done == Log([m EXCEPT !.result = result], "processOperation", Ok) IN
    IF hooks.afterEach THEN Await(done, "afterEachInner") ELSE recordResult(done)

\* processOperation without the lookup of the subscription handler
processOperationWithoutLookup(m) ==
    LET operation == m.operations[m.i] IN
    IF operation.type \notin {"execute", "subscribe"}
    THEN catchOperation(m, OperationTypeNotSupported)
    ELSE IF operation.type = "execute"
    THEN IF m.api \notin DOMAIN registeredProcedures
         THEN catchOperation(m, ProcedureNotFound)
         ELSE IF operation.name \notin DOMAIN registeredProcedures[m.api]
         THEN catchOperation(m, ProcedureNotFound)
         ELSE Await(m, "execute")
    ELSE IF m.socket # NoSocket
    THEN afterOperation(
             Log(registerSocketConnection(m, operation.name),
                 "registerSocketConnection", Ok),
             Undefined)
    ELSE afterOperation(m, Undefined)

\* processOperation with the test of the subscription handler the wrong way
\* round
processOperationInvertedCheck(m) ==
    LET operation == m.operations[m.i] IN
    IF operation.type \notin {"execute", "subscribe"}
    THEN catchOperation(m, OperationTypeNotSupported)
    ELSE IF operation.type = "execute"
    THEN IF m.api \notin DOMAIN registeredProcedures
         THEN catchOperation(m, ProcedureNotFound)
         ELSE IF operation.name \notin DOMAIN registeredProcedures[m.api]
         THEN catchOperation(m, ProcedureNotFound)
         ELSE Await(m, "execute")
    ELSE IF m.socket # NoSocket
    THEN IF m.api \notin DOMAIN registeredSubscriptions
         THEN catchOperation(m, SubscriptionNotFound)
         ELSE IF operation.name \in DOMAIN registeredSubscriptions[m.api]
         THEN catchOperation(m, SubscriptionNotFound)
         ELSE afterOperation(
                  Log(registerSocketConnection(m, operation.name),
                      "registerSocketConnection", Ok),
                  Undefined)
    ELSE afterOperation(m, Undefined)

processOperation(m) ==
    LET operation == m.operations[m.i] IN
    IF operation.type \notin {"execute", "subscribe"}
    THEN catchOperation(m, OperationTypeNotSupported)
    ELSE IF operation.type = "execute"
    THEN IF m.api \notin DOMAIN registeredProcedures
         THEN catchOperation(m, ProcedureNotFound)
         ELSE IF operation.name \notin DOMAIN registeredProcedures[m.api]
         THEN catchOperation(m, ProcedureNotFound)
         ELSE Await(m, "execute")
    ELSE IF m.socket # NoSocket
    THEN IF m.api \notin DOMAIN registeredSubscriptions
         THEN catchOperation(m, SubscriptionNotFound)
         ELSE IF operation.name \notin DOMAIN registeredSubscriptions[m.api]
         THEN catchOperation(m, SubscriptionNotFound)
         ELSE afterOperation(
                  Log(registerSocketConnection(m, operation.name),
                      "registerSocketConnection", Ok),
                  Undefined)
    ELSE afterOperation(m, Undefined)

\* a handleOperationError that wraps every error, JRPCError or not
normalizeErrorWrapsAll(e) == UnhandledError(e)

\* what handleOperationError returns when the onError hook gave nothing
normalizeError(e) == IF IsJRPCError(e) THEN e ELSE UnhandledError(e)

\* a handleOperationError that goes by the onError hook
handleOperationErrorSkipsHook(m, e) == catchOperation(m, normalizeError(e))

\* the handler threw: handleOperationError, up to the call of the onError hook
handleOperationError(m, e) ==
    IF hooks.onError THEN Await([m EXCEPT !.thrown = e], "onError")
    ELSE catchOperation(m, normalizeError(e))

\* the catch block of a hook call of the loop: the error entry of the hook
hookError(m, e) ==
    processOperationError(m, IF IsJRPCError(e) THEN e ELSE UnhandledError(e))

\* a before-each failure that leaves the loop instead of going on with it
beforeEachFailedBreaks(m, e) == afterOperations(hookError(m, e))

\* a before-each failure that lacks its `continue`
beforeEachFailedFallsThrough(m, e) == processOperation(hookError(m, e))

\* the before-each hook threw: its error is recorded, then `continue`
beforeEachFailed(m, e) == nextOperation(hookError(m, e))

\* the after-each hook threw inside the try block: `continue` for a JRPCError
\* only, any other error is recorded and the try block goes on
afterEachInnerFailed(m, e) ==
    IF IsJRPCError(e) THEN nextOperation(hookError(m, e))
    ELSE recordResult(hookError(m, e))

\* an after-each failure behind the try/catch that starts the operation again
afterEachOuterFailedRetries(m, e) == forOperations(hookError(m, e))

\* the after-each hook threw behind the try/catch
afterEachOuterFailed(m, e) == nextOperation(hookError(m, e))

\* the top of the loop body for operation m.i
forOperations(m) ==
    IF m.i > Len(m.operations) THEN afterOperations(m)
    ELSE IF hooks.beforeEach THEN Await(m, "beforeEach")
    ELSE processOperation(m)

\* the start of processRequest
processRequest(b, socket, request) ==
    LET m == [Machine(b) EXCEPT
                 !.socket = socket, !.api = request.api,
                 !.operations = request.operations, !.ret = request.ret,
                 !.context = newContext(b)]
    IN  IF hooks.beforeAll THEN Await(m, "beforeAll") ELSE forOperations(m)

(***************************************************************************)
(* The transport: handler and handleHTTPRequest for what comes over HTTP,  *)
(* the message listener for what comes over a websocket.                   *)
(***************************************************************************)
UpgradeRequestNotSupported ==
    JRPCError("JRPC_UPGRADE_REQUEST_NOT_SUPPORTED", "Upgrade request not supported.",
              "[]", NoDetails)

RequestMethodNotSupported ==
    JRPCError("JRPC_REQUEST_METHOD_NOT_SUPPORTED",
              "The request method is not supported.", "[]", NoDetails)

ExpectedRequestBodyContent ==
    JRPCError("JRPC_EXPECTED_REQUEST_BODY_CONTENT", "The request must have a body.",
              "[]", NoDetails)

InvalidJsonContent ==
    JRPCError("JRPC_INVALID_JSON_CONTENT",
              "The request body content must be a valid JSON.", "[]", NoDetails)

\* what stands for the parsed request where the content gives none
NoRequest == [api |-> "unknown", operations |-> <<>>, ret |-> NoReturn]

\* a body or a message: no content, content that JSON.parse rejects, or the
\* JSON text of a request
Content(is, request) == [is |-> is, request |-> request]

\* a ServerResponseError {jrpc, api: 'unknown', error} leaves as the only answer
respondError(m, socket, error) ==
    Log([m EXCEPT !.pc = "done", !.socket = socket, !.api = "unknown"],
        IF socket # NoSocket THEN "send" ELSE "respond", error)

\* GET /definitions: the definitions of the registered procedures leave
respondDefinitions(m) ==
    Log([m EXCEPT !.pc = "done", !.api = "unknown"], "definitions", Ok)

handleHTTPRequest(b, req) ==
    IF req.method # "POST"
    THEN IF req.method = "GET" /\ req.pathname = "/definitions"
         THEN respondDefinitions(Machine(b))
         ELSE respondError(Machine(b), NoSocket, RequestMethodNotSupported)
    ELSE IF req.body.is = "null"
    THEN respondError(Machine(b), NoSocket, ExpectedRequestBodyContent)
    ELSE IF req.body.is # "json"
    THEN respondError(Machine(b), NoSocket, InvalidJsonContent)
    ELSE processRequest(b, NoSocket, req.body.request)

\* handler, for a request that is no websocket upgrade
handler(b, req) ==
    IF req.upgrade = "null" THEN handleHTTPRequest(b, req)
    ELSE respondError(Machine(b), NoSocket, UpgradeRequestNotSupported)

\* a message listener that hands every message to processRequest
messageListenerParsesNothing(b, socket, data) ==
    processRequest(b, socket, data.request)

\* the message listener of a websocket
messageListener(b, socket, data) ==
    IF data.is = "null"
    THEN respondError(Machine(b), socket, ExpectedRequestBodyContent)
    ELSE IF data.is # "json"
    THEN respondError(Machine(b), socket, InvalidJsonContent)
    ELSE processRequest(b, socket, data.request)

(***************************************************************************)
(* The routing step of the Server that has resource handlers: besides      *)
(* procedures it dispatches create, update, fetch, delete and subscribe    *)
(* operations to the handler registered for the resource they name.        *)
(***************************************************************************)
ResourceNames == {"user", "post"}
Methods == {"create", "update", "fetch", "delete"}

ResourceNotFound ==
    JRPCError("JRPC_RESOURCE_NOT_FOUND", "Resource was not found.",
              "['ensure the resource name is properly typed', 'ensure the resource has been registered in the right API version']",
              NoDetails)

registerResourceHandlers(registered, handlers) ==
    registerHandlers(registered, handlers, 1)

\* the resource handlers the application registers before the server starts
StartupResources == <<[api |-> "v1", name |-> "user"]>>

\* this.resourceHandlers, which no request changes
resourceHandlers == registerResourceHandlers(<<>>, StartupResources)

\* results: a single reference is given as that reference, not as a list
SingleResult(reference) == [shape |-> "reference", refs |-> <<reference>>]

\* processOperationResult of this Server
processResourceOperationResult(m) ==
    LET id == m.operations[m.i].id
        references == Keys(m.result)
    IN  IF ~m.result.defined
        THEN [m EXCEPT !.response = Append(@, ResultsEntry(id, NullResults))]
        ELSE [m EXCEPT
                !.response = Append(@, ResultsEntry(id,
                                 IF Len(references) > 1
                                 THEN ListResults(references)
                                 ELSE IF Len(references) = 0 THEN NullResults
                                 ELSE SingleResult(references[1]))),
                !.resources = InsertAll(@, m.result.items, 1)]

\* processOperationResult of src/src/server.ts: a resource is put into the map
\* only if it is truthy
processOperationResultOfServer(m) ==
    LET id == m.operations[m.i].id
        references == Keys(m.result)
        truthy == SelectSeq(m.result.items,
                            LAMBDA item : item.resource # NullResource)
    IN  IF ~m.result.defined
        THEN [m EXCEPT !.response = Append(@, ResultsEntry(id, NullResults))]
        ELSE [m EXCEPT
                !.response = Append(@, ResultsEntry(id,
                                 IF Len(references) > 1
                                 THEN ListResults(references)
                                 ELSE IF Len(references) = 0 THEN NullResults
                                 ELSE SingleResult(references[1]))),
                !.resources = InsertAll(@, truthy, 1)]

\* processOperation of src/src/server.ts returned: the rest of the try block
\* and of the loop body where no after-operation hook is set
operationReturnedOfServer(m, result) ==
    nextOperation(processOperationResultOfServer(
        Log([m EXCEPT !.result = result], "processOperation", Ok)))

\* processOperation returned: the rest of the try block and of the loop body
\* where no after-each hook is set
resourceOperationReturned(m, result) ==
    nextOperation(processResourceOperationResult(
        Log([m EXCEPT !.result = result], "processOperation", Ok)))

\* a routing step that calls fetch whatever the type of the operation is
processResourceOperationFetches(m) ==
    LET operation == m.operations[m.i] IN
    IF operation.type \notin {"execute", "subscribe"} \cup Methods
    THEN catchOperation(m, OperationTypeNotSupported)
    ELSE IF operation.type = "execute"
    THEN IF m.api \notin DOMAIN registeredProcedures
         THEN catchOperation(m, ProcedureNotFound)
         ELSE IF operation.name \notin DOMAIN registeredProcedures[m.api]
         THEN catchOperation(m, ProcedureNotFound)
         ELSE Await(m, "execute")
    ELSE IF m.api \notin DOMAIN resourceHandlers
    THEN catchOperation(m, ResourceNotFound)
    ELSE IF operation.name \notin DOMAIN resourceHandlers[m.api]
    THEN catchOperation(m, ResourceNotFound)
    ELSE IF operation.type = "subscribe"
    THEN resourceOperationReturned(
             IF m.socket # NoSocket THEN Log(m, "subscribe", Ok) ELSE m,
             Undefined)
    ELSE Await(m, "fetch")

\* the type check, the procedure lookup, the resource lookup, then the call of
\* resourceHandler.subscribe or of resourceHandler[operation.type]
processResourceOperation(m) ==
    LET operation == m.operations[m.i] IN
    IF operation.type \notin {"execute", "subscribe"} \cup Methods
    THEN catchOperation(m, OperationTypeNotSupported)
    ELSE IF operation.type = "execute"
    THEN IF m.api \notin DOMAIN registeredProcedures
         THEN catchOperation(m, ProcedureNotFound)
         ELSE IF operation.name \notin DOMAIN registeredProcedures[m.api]
         THEN catchOperation(m, ProcedureNotFound)
         ELSE Await(m, "execute")
    ELSE IF m.api \notin DOMAIN resourceHandlers
    THEN catchOperation(m, ResourceNotFound)
    ELSE IF operation.name \notin DOMAIN resourceHandlers[m.api]
    THEN catchOperation(m, ResourceNotFound)
    ELSE IF operation.type = "subscribe"
    THEN resourceOperationReturned(
             IF m.socket # NoSocket THEN Log(m, "subscribe", Ok) ELSE m,
             Undefined)
    ELSE Await(m, operation.type)

\* the start of processRequest of this Server where no hook is set
processResourceRequest(b, socket, request) ==
    processResourceOperation(
        [Machine(b) EXCEPT
            !.socket = socket, !.api = request.api,
            !.operations = request.operations, !.ret = request.ret,
            !.context = newContext(b)])

(***************************************************************************)
(* The state machine.                                                      *)
(***************************************************************************)
HookNames == {"beforeAll", "beforeEach", "afterEach", "afterAll", "onError"}

\* A hook that is not set behaves as one that returns at once, so the server
\* with every hook set shows every response and registry a server with fewer
\* hooks can show; the server with no hook is kept for the code that skips them.
HookConfigs == {[h \in HookNames |-> TRUE], [h \in HookNames |-> FALSE]}

RequestsOf(apis, kindLists, returnMaps) ==
    {[api |-> api,
      operations |-> [k \in DOMAIN kinds |-> Operation(kinds[k], k)],
      ret |-> ret] :
        api \in apis, kinds \in kindLists, ret \in returnMaps}

Requests == RequestsOf(ApiVersions, OperationLists, ReturnMaps)

\* the operations submitted so far, over all requests
RECURSIVE SumOps(_)
SumOps(bs) ==
    IF bs = {} THEN 0
    ELSE LET b == CHOOSE x \in bs : TRUE IN
         Len(batch[b].operations) + SumOps(bs \ {b})

\* the state once the application has set its hooks and registered its handlers
StartedIn(configs, environments) ==
    /\ hooks \in configs
    /\ configuration \in [env : environments]
    /\ registeredProcedures = registerProcedureHandlers(<<>>, StartupProcedures)
    /\ registeredSubscriptions =
           registerSubscriptionHandlers(<<>>, StartupSubscriptions)
    /\ socketState = [s \in Sockets |-> "new"]
    /\ connectedSockets = {}
    /\ subscriptionsByTopics = <<>>
    /\ socketsInSubscriptions = <<>>
    /\ batch = [b \in Batches |-> IdleBatch]
    /\ published = NoPublish
    /\ registrations = Registered(<<>>, "procedure", StartupProcedures)
                           \o Registered(<<>>, "subscription", StartupSubscriptions)

Environment == {"development", "staging", "production"}

Started(configs) == StartedIn(configs, {"development"})

Init == Started(HookConfigs)

\* the machine m is what batch b and the subscription maps become
Commit(b, m) ==
    /\ batch' = [batch EXCEPT ![b] = [f \in BatchFields |-> m[f]]]
    /\ subscriptionsByTopics' = m.byTopic
    /\ socketsInSubscriptions' = m.bySocket
    /\ UNCHANGED <<hooks, registeredProcedures, registeredSubscriptions,
                   socketState, connectedSockets, published, registrations, configuration>>

\* handleWebsocketRequest: the upgrade gives the socket its id and keeps it
Connect(s) ==
    /\ socketState[s] = "new"
    /\ \A s2 \in Sockets : s2 < s => socketState[s2] # "new"
    /\ socketState' = [socketState EXCEPT ![s] = "open"]
    /\ connectedSockets' = connectedSockets \cup {s}
    /\ UNCHANGED <<hooks, registeredProcedures, registeredSubscriptions,
                   subscriptionsByTopics, socketsInSubscriptions, batch,
                   published, registrations, configuration>>

\* the socket's close event
Close(s) ==
    /\ socketState[s] = "open"
    /\ socketState' = [socketState EXCEPT ![s] = "closed"]
    /\ LET closed == closeListener(Registry, s) IN
        /\ connectedSockets' = closed.connectedSockets
        /\ subscriptionsByTopics' = closed.subscriptionsByTopics
        /\ socketsInSubscriptions' = closed.socketsInSubscriptions
    /\ UNCHANGED <<hooks, registeredProcedures, registeredSubscriptions, batch,
                   published, registrations, configuration>>

\* a request arrives: a message event of an open socket, or an HTTP POST
Receive(b, socket, request) ==
    /\ batch[b].pc = "idle"
    /\ \A b2 \in Batches : b2 < b => batch[b2].pc # "idle"
    /\ SumOps(Batches) + Len(request.operations) <= MaxSubmitted
    /\ socket # NoSocket => socketState[socket] = "open"
    /\ Commit(b, processRequest(b, socket, request))

\* a before-all call whose error is not caught: it rejects the request
BeforeAllDoneRejects(b, out) ==
    /\ batch[b].pc = "beforeAll"
    /\ LET m == Log(Machine(b), "beforeAll", out) IN
       Commit(b, IF out = Ok THEN forOperations(m) ELSE [m EXCEPT !.pc = "failed"])

BeforeAllDone(b, out) ==
    /\ batch[b].pc = "beforeAll"
    /\ Commit(b, forOperations(Log(Machine(b), "beforeAll", out)))

BeforeEachDone(b, out) ==
    /\ batch[b].pc = "beforeEach"
    /\ LET m == Log(Machine(b), "beforeEach", out) IN
       Commit(b, IF out = Ok THEN processOperation(m) ELSE beforeEachFailed(m, out))

ExecuteReturned(b, output) ==
    /\ batch[b].pc = "execute"
    /\ Commit(b, afterOperation(Log(Machine(b), "execute", Ok), output))

ExecuteThrew(b, e) ==
    /\ batch[b].pc = "execute"
    /\ Commit(b, handleOperationError(Log(Machine(b), "execute", e), e))

\* an onError call whose return value is dropped
OnErrorReturnedDropped(b, custom) ==
    /\ batch[b].pc = "onError"
    /\ LET m == Log(Machine(b), "onError", custom) IN
       Commit(b, catchOperation(m, normalizeError(m.thrown)))

\* the onError hook returned undefined or a JRPCError of its own
OnErrorReturned(b, custom) ==
    /\ batch[b].pc = "onError"
    /\ LET m == Log(Machine(b), "onError", custom) IN
       Commit(b, catchOperation(m, IF custom = Ok THEN normalizeError(m.thrown)
                                   ELSE custom))

\* the onError hook threw: processOperation rejects with that error
OnErrorThrew(b, e) ==
    /\ batch[b].pc = "onError"
    /\ Commit(b, catchOperation(Log(Machine(b), "onError", e), e))

AfterEachInnerDone(b, out) ==
    /\ batch[b].pc = "afterEachInner"
    /\ LET m == Log(Machine(b), "afterEach", out) IN
       Commit(b, IF out = Ok THEN recordResult(m) ELSE afterEachInnerFailed(m, out))

AfterEachOuterDone(b, out) ==
    /\ batch[b].pc = "afterEachOuter"
    /\ LET m == Log(Machine(b), "afterEach", out) IN
       Commit(b, IF out = Ok THEN nextOperation(m) ELSE afterEachOuterFailed(m, out))

\* an after-all call whose error is caught and dropped, as that of the
\* before-all hook is
AfterAllDoneSwallows(b, out) ==
    /\ batch[b].pc = "afterAll"
    /\ Commit(b, return(Log(Machine(b), "afterAll", out)))

\* the after-all hook is awaited outside any try: its error rejects the request
AfterAllDone(b, out) ==
    /\ batch[b].pc = "afterAll"
    /\ LET m == Log(Machine(b), "afterAll", out) IN
       Commit(b, IF out = Ok THEN return(m) ELSE [m EXCEPT !.pc = "failed"])

(***************************************************************************)
(* Spec: one request at a time through the whole pipeline, with every      *)
(* outcome of every hook and handler.                                      *)
(***************************************************************************)
FirstBatch == {b \in Batches : b = 1}
FirstSocket == {s \in Sockets : s = 1}

Next ==
    \/ \E s \in FirstSocket : Connect(s)
    \/ \E b \in FirstBatch, socket \in FirstSocket \cup {NoSocket},
          request \in Requests : Receive(b, socket, request)
    \/ \E b \in Batches, out \in OuterHookOutcomes : BeforeAllDone(b, out)
    \/ \E b \in Batches, out \in HookOutcomes : BeforeEachDone(b, out)
    \/ \E b \in Batches, output \in HandlerOutputs : ExecuteReturned(b, output)
    \/ \E b \in Batches, e \in HandlerThrows : ExecuteThrew(b, e)
    \/ \E b \in Batches, custom \in {Ok, CustomError} : OnErrorReturned(b, custom)
    \/ \E b \in Batches, e \in OnErrorThrows : OnErrorThrew(b, e)
    \/ \E b \in Batches, out \in HookOutcomes : AfterEachInnerDone(b, out)
    \/ \E b \in Batches, out \in HookOutcomes : AfterEachOuterDone(b, out)
    \/ \E b \in Batches, out \in OuterHookOutcomes : AfterAllDone(b, out)

Spec == Init /\ [][Next]_vars

(***************************************************************************)
(* SpecRegistry: several sockets and several requests in flight at once,   *)
(* with subscribe operations and close events in every order.  The server  *)
(* has no hook or a before-each hook only; a request gives way at the      *)
(* calls of that hook and of its handlers.                                 *)
(***************************************************************************)
RegistryKinds ==
    {[type |-> "execute", name |-> "p1"]} \cup
    ([type : {"subscribe"}, name : Topics])

RegistryRequests ==
    RequestsOf({"v1"}, UNION {[1 .. n -> RegistryKinds] : n \in 1 .. MaxOps},
               {NoReturn})

InitRegistry ==
    Started({[h \in HookNames |-> FALSE], [h \in HookNames |-> h = "beforeEach"]})

NextRegistry ==
    \/ \E s \in Sockets : Connect(s)
    \/ \E s \in Sockets : Close(s)
    \/ \E b \in Batches, socket \in Sockets \cup {NoSocket},
          request \in RegistryRequests : Receive(b, socket, request)
    \/ \E b \in Batches, out \in HookOutcomes : BeforeEachDone(b, out)
    \/ \E b \in Batches : ExecuteReturned(b, Undefined)
    \/ \E b \in Batches, e \in {PlainError("TypeError", "boom")} : ExecuteThrew(b, e)

SpecRegistry == InitRegistry /\ [][NextRegistry]_vars

(***************************************************************************)
(* SpecPublish: the application publishes events while sockets connect,    *)
(* subscribe and close.  Each request holds one subscribe operation; the   *)
(* server has a before-each hook or none.                                  *)
(***************************************************************************)
\* the application calls publishMessage; the sends to the sockets of `failing`
\* throw
Publish(topic, failing) ==
    /\ published.count < MaxPublishes
    /\ LET sends == publishMessage(Registry, topic, failing) IN
       published' = [count |-> published.count + 1, topic |-> topic,
                     received |-> sends.received, failed |-> sends.failed]
    /\ UNCHANGED <<hooks, registeredProcedures, registeredSubscriptions,
                   socketState, connectedSockets, subscriptionsByTopics,
                   socketsInSubscriptions, batch, registrations, configuration>>

PublishRequests ==
    RequestsOf({"v1"}, [1 .. 1 -> [type : {"subscribe"}, name : Topics]],
               {NoReturn})

NextPublish ==
    \/ \E s \in Sockets : Connect(s)
    \/ \E s \in Sockets : Close(s)
    \/ \E b \in Batches, socket \in Sockets, request \in PublishRequests :
          Receive(b, socket, request)
    \/ \E b \in Batches : BeforeEachDone(b, Ok)
    \/ \E topic \in Topics, failing \in SUBSET Sockets : Publish(topic, failing)

SpecPublish == InitRegistry /\ [][NextPublish]_vars

(***************************************************************************)
(* SpecResources: the Server with resource handlers and no hook.  Each     *)
(* request holds one operation: of a procedure, of a resource, or of a     *)
(* type the protocol does not have.                                        *)
(***************************************************************************)
ResourceKinds ==
    ([type : {"execute"}, name : ProcedureNames]) \cup
    ([type : Methods \cup {"subscribe"}, name : ResourceNames]) \cup
    ([type : {"patch"}, name : {"user"}])

ResourceRequests ==
    RequestsOf(ApiVersions, [1 .. 1 -> ResourceKinds], {NoReturn})

ReceiveResources(b, socket, request) ==
    /\ batch[b].pc = "idle"
    /\ \A b2 \in Batches : b2 < b => batch[b2].pc # "idle"
    /\ SumOps(Batches) + Len(request.operations) <= MaxSubmitted
    /\ socket # NoSocket => socketState[socket] = "open"
    /\ Commit(b, processResourceRequest(b, socket, request))

\* the awaited method of the handler returned
HandlerMethodReturned(b, output) ==
    /\ batch[b].pc \in Methods \cup {"execute"}
    /\ Commit(b, resourceOperationReturned(
                     Log(Machine(b), batch[b].pc, Ok), output))

\* the awaited method of the handler threw
HandlerMethodThrew(b, e) ==
    /\ batch[b].pc \in Methods \cup {"execute"}
    /\ Commit(b, handleOperationError(Log(Machine(b), batch[b].pc, e), e))

InitResources == Started({[h \in HookNames |-> FALSE]})

NextResources ==
    \/ \E s \in FirstSocket : Connect(s)
    \/ \E b \in Batches, socket \in FirstSocket \cup {NoSocket},
          request \in ResourceRequests : ReceiveResources(b, socket, request)
    \/ \E b \in Batches, output \in HandlerOutputs :
          HandlerMethodReturned(b, output)
    \/ \E b \in Batches, e \in HandlerThrows : HandlerMethodThrew(b, e)

SpecResources == InitResources /\ [][NextResources]_vars

(***************************************************************************)
(* SpecProjection: requests for a procedure whose handler returns users    *)
(* and posts, with return maps that list reserved fields, fields the       *)
(* resource does not have, no field at all, and lists for several types.   *)
(* The server has no hook.                                                 *)
(***************************************************************************)
ProjectionReturnMaps ==
    {NoReturn,
     [user |-> {"name"}],
     [user |-> {"name", "_resource_id"}],
     [user |-> {"name", "age"}],
     [user |-> {}],
     [user |-> {"email"}, post |-> {"title", "_resource_name"}]}

ProjectionRequests ==
    RequestsOf({"v1"},
               UNION {[1 .. n -> {[type |-> "execute", name |-> "p1"]}] :
                         n \in 1 .. MaxOps},
               ProjectionReturnMaps)

ProjectionOutputs ==
    {Undefined, generateOperationResult(<<User1>>),
     generateOperationResult(<<User1, Post2>>),
     generateOperationResult(<<User3, Post2>>)}

InitProjection == Started({[h \in HookNames |-> FALSE]})

NextProjection ==
    \/ \E b \in FirstBatch, request \in ProjectionRequests :
          Receive(b, NoSocket, request)
    \/ \E b \in Batches, output \in ProjectionOutputs : ExecuteReturned(b, output)

SpecProjection == InitProjection /\ [][NextProjection]_vars

(***************************************************************************)
(* SpecReferences: requests for a procedure whose handler returns          *)
(* resources with and without an id.  The server has an after-each hook,   *)
(* so that the output of an operation is at hand, in the operation         *)
(* context, next to the resources the operations before it gave.           *)
(***************************************************************************)
ReferenceFixtures ==
    {[_resource_id |-> "1", _resource_name |-> "user"],
     [_resource_id |-> "", _resource_name |-> "user"],
     [_resource_id |-> "unknown", _resource_name |-> "user"],
     [_resource_id |-> "1", _resource_name |-> "post"],
     [_resource_id |-> "c", _resource_name |-> "a:b"],
     [_resource_id |-> "b:c", _resource_name |-> "a"]}

ReferenceOutputs ==
    {generateOperationResult(<<r>>) : r \in ReferenceFixtures} \cup
    {generateOperationResult(<<[_resource_id |-> "", _resource_name |-> "user"],
                               [_resource_id |-> "unknown",
                                _resource_name |-> "user"]>>)}

ReferenceRequests ==
    RequestsOf({"v1"},
               UNION {[1 .. n -> {[type |-> "execute", name |-> "p1"]}] :
                         n \in 1 .. MaxOps},
               {NoReturn})

InitReferences == Started({[h \in HookNames |-> h = "afterEach"]})

NextReferences ==
    \/ \E b \in FirstBatch, request \in ReferenceRequests :
          Receive(b, NoSocket, request)
    \/ \E b \in Batches, output \in ReferenceOutputs : ExecuteReturned(b, output)
    \/ \E b \in Batches : AfterEachInnerDone(b, Ok)
    \/ \E b \in Batches : AfterEachOuterDone(b, Ok)

SpecReferences == InitReferences /\ [][NextReferences]_vars

(***************************************************************************)
(* SpecRegistration: the application registers procedure and subscription  *)
(* handlers on a new Server, several under the same api version and name.  *)
(***************************************************************************)
MaxRegistrations == 3

HandlerIds == {"h1", "h2"}

ProcedureHandlers == [api : ApiVersions, name : {"p1"}, handler : HandlerIds]
SubscriptionHandlers == [api : {"v1"}, name : {"t1"}, handler : HandlerIds]

HandlerLists(handlers) == UNION {[1 .. n -> handlers] : n \in 1 .. 2}

ProceduresRegistered(procedures) ==
    /\ Len(registrations) + Len(procedures) <= MaxRegistrations
    /\ registeredProcedures' =
           registerProcedureHandlers(registeredProcedures, procedures)
    /\ registrations' = Registered(registrations, "procedure", procedures)
    /\ UNCHANGED <<hooks, registeredSubscriptions, socketState, connectedSockets,
                   subscriptionsByTopics, socketsInSubscriptions, batch,
                   published, configuration>>

SubscriptionsRegistered(subscriptionHandlers) ==
    /\ Len(registrations) + Len(subscriptionHandlers) <= MaxRegistrations
    /\ registeredSubscriptions' =
           registerSubscriptionHandlers(registeredSubscriptions,
                                        subscriptionHandlers)
    /\ registrations' =
           Registered(registrations, "subscription", subscriptionHandlers)
    /\ UNCHANGED <<hooks, registeredProcedures, socketState, connectedSockets,
                   subscriptionsByTopics, socketsInSubscriptions, batch,
                   published, configuration>>

\* a Server as its constructor leaves it: nothing is registered
InitRegistration ==
    /\ hooks = [h \in HookNames |-> FALSE]
    /\ registeredProcedures = <<>>
    /\ registeredSubscriptions = <<>>
    /\ socketState = [s \in Sockets |-> "new"]
    /\ connectedSockets = {}
    /\ subscriptionsByTopics = <<>>
    /\ socketsInSubscriptions = <<>>
    /\ batch = [b \in Batches |-> IdleBatch]
    /\ published = NoPublish
    /\ registrations = <<>>
    /\ configuration = [env |-> "development"]

NextRegistration ==
    \/ \E procedures \in HandlerLists(ProcedureHandlers) :
          ProceduresRegistered(procedures)
    \/ \E subscriptionHandlers \in HandlerLists(SubscriptionHandlers) :
          SubscriptionsRegistered(subscriptionHandlers)

SpecRegistration == InitRegistration /\ [][NextRegistration]_vars

(***************************************************************************)
(* SpecContext: requests in flight at once on a Server with a before-each  *)
(* hook that writes into the scratch space of the RequestContext it is     *)
(* given.  Each call of the hook may write the key with a value that names *)
(* the request the hook runs for.                                          *)
(***************************************************************************)
ContextKeys == {"user", "tenant"}

\* what get gives for a key never set
NoValue == 0

\* RequestContext.get(key)
get(b, key) ==
    LET globalContext == batch[batch[b].context].globalContext IN
    IF key \in DOMAIN globalContext THEN globalContext[key] ELSE NoValue

\* the before-each hook of request b calls context.set(key, value) before it
\* returns
ContextSet(b, key) ==
    /\ batch[b].pc = "beforeEach"
    /\ get(b, key) = NoValue
    /\ batch' = [batch EXCEPT
                    ![batch[b].context].globalContext = MapSet(@, key, b)]
    /\ UNCHANGED <<hooks, registeredProcedures, registeredSubscriptions,
                   socketState, connectedSockets, subscriptionsByTopics,
                   socketsInSubscriptions, published, registrations, configuration>>

ContextRequests ==
    RequestsOf({"v1"},
               UNION {[1 .. n -> {[type |-> "execute", name |-> "p1"]}] :
                         n \in 1 .. MaxOps},
               {NoReturn})

InitContext == Started({[h \in HookNames |-> h = "beforeEach"]})

NextContext ==
    \/ \E b \in Batches, request \in ContextRequests :
          Receive(b, NoSocket, request)
    \/ \E b \in Batches, key \in ContextKeys : ContextSet(b, key)
    \/ \E b \in Batches : BeforeEachDone(b, Ok)
    \/ \E b \in Batches : ExecuteReturned(b, Undefined)

SpecContext == InitContext /\ [][NextContext]_vars

(***************************************************************************)
(* SpecEnvironment: requests for procedures on Servers constructed with    *)
(* each of the environments, with all hooks set or none.                   *)
(***************************************************************************)
EnvironmentRequests ==
    RequestsOf({"v1"},
               UNION {[1 .. n -> {[type |-> "execute", name |-> "p1"]}] :
                         n \in 1 .. MaxOps},
               {NoReturn})

InitEnvironment == StartedIn(HookConfigs, Environment)

NextEnvironment ==
    \/ \E b \in FirstBatch, request \in EnvironmentRequests :
          Receive(b, NoSocket, request)
    \/ \E b \in Batches : BeforeAllDone(b, Ok)
    \/ \E b \in Batches : BeforeEachDone(b, Ok)
    \/ \E b \in Batches : ExecuteReturned(b, Undefined)
    \/ \E b \in Batches, e \in HandlerThrows : ExecuteThrew(b, e)
    \/ \E b \in Batches : OnErrorReturned(b, Ok)
    \/ \E b \in Batches : AfterEachInnerDone(b, Ok)
    \/ \E b \in Batches : AfterEachOuterDone(b, Ok)
    \/ \E b \in Batches : AfterAllDone(b, Ok)

SpecEnvironment == InitEnvironment /\ [][NextEnvironment]_vars

(***************************************************************************)
(* SpecTransport: HTTP requests and websocket messages, well formed or     *)
(* not, on a Server with all hooks set or none.                            *)
(***************************************************************************)
TransportRequests ==
    RequestsOf({"v1"}, {<<[type |-> "execute", name |-> "p1"]>>}, {NoReturn})

Contents ==
    {Content("null", NoRequest), Content("invalid", NoRequest)}
        \cup {Content("json", request) : request \in TransportRequests}

HTTPRequests ==
    [upgrade : {"null", "h2c"}, method : {"POST", "GET", "PUT"},
     pathname : {"/", "/definitions"}, body : Contents]

HandlerCalled(b, req) ==
    /\ batch[b].pc = "idle"
    /\ \A b2 \in Batches : b2 < b => batch[b2].pc # "idle"
    /\ Commit(b, handler(b, req))

MessageReceived(b, socket, data) ==
    /\ batch[b].pc = "idle"
    /\ \A b2 \in Batches : b2 < b => batch[b2].pc # "idle"
    /\ socketState[socket] = "open"
    /\ Commit(b, messageListener(b, socket, data))

InitTransport == Started(HookConfigs)

NextTransport ==
    \/ \E s \in FirstSocket : Connect(s)
    \/ \E b \in Batches, req \in HTTPRequests : HandlerCalled(b, req)
    \/ \E b \in Batches, socket \in FirstSocket, data \in Contents :
          MessageReceived(b, socket, data)
    \/ \E b \in Batches : BeforeAllDone(b, Ok)
    \/ \E b \in Batches : BeforeEachDone(b, Ok)
    \/ \E b \in Batches : ExecuteReturned(b, Undefined)
    \/ \E b \in Batches : AfterEachInnerDone(b, Ok)
    \/ \E b \in Batches : AfterEachOuterDone(b, Ok)
    \/ \E b \in Batches : AfterAllDone(b, Ok)

SpecTransport == InitTransport /\ [][NextTransport]_vars

(***************************************************************************)
(* SpecEmptyResults: requests for procedures on the Server of              *)
(* src/src/server.ts, whose handlers return resources or references mapped *)
(* to null.  The server has an after-all hook only, so that the response   *)
(* is at hand after the projection and before it leaves.                   *)
(***************************************************************************)
EmptyResultRequests ==
    RequestsOf({"v1"}, {<<[type |-> "execute", name |-> n]>> : n \in ProcedureNames},
               ReturnMaps)

EmptyResultOutputs ==
    {Undefined, generateOperationResult(<<User1>>),
     generateOperationResult(<<User1, Post2>>),
     generateEmptyOperationResult(<<User1>>),
     generateEmptyOperationResult(<<User1, Post2>>)}

\* the awaited execute of the procedure returned
ProcedureReturned(b, output) ==
    /\ batch[b].pc = "execute"
    /\ Commit(b, operationReturnedOfServer(
                     Log(Machine(b), "execute", Ok), output))

InitEmptyResults == Started({[h \in HookNames |-> h = "afterAll"]})

NextEmptyResults ==
    \/ \E b \in Batches, request \in EmptyResultRequests :
          ReceiveResources(b, NoSocket, request)
    \/ \E b \in Batches, output \in EmptyResultOutputs :
          ProcedureReturned(b, output)
    \/ \E b \in Batches, e \in HandlerThrows : HandlerMethodThrew(b, e)
    \/ \E b \in Batches : AfterAllDone(b, Ok)

SpecEmptyResults == InitEmptyResults /\ [][NextEmptyResults]_vars

(***************************************************************************)
(* SpecVersions: handlers registered under either api version, before and  *)
(* between requests that name a procedure under either api version.  The   *)
(* server has no hook.                                                     *)
(***************************************************************************)
VersionedProcedures ==
    [api : ApiVersions, name : ProcedureNames, handler : {"h1"}]

VersionedRequests ==
    RequestsOf(ApiVersions,
               {<<[type |-> "execute", name |-> n]>> : n \in ProcedureNames},
               {NoReturn})

NextVersions ==
    \/ \E procedures \in HandlerLists(VersionedProcedures) :
          ProceduresRegistered(procedures)
    \/ \E subscriptionHandlers \in HandlerLists(SubscriptionHandlers) :
          SubscriptionsRegistered(subscriptionHandlers)
    \/ \E b \in Batches, request \in VersionedRequests :
          Receive(b, NoSocket, request)
    \/ \E b \in Batches : ExecuteReturned(b, Undefined)

SpecVersions == InitRegistration /\ [][NextVersions]_vars

(***************************************************************************)
(* SpecTermination: one request through the whole pipeline, with every     *)
(* outcome of every hook and handler, where every call that is awaited     *)
(* completes: a hook or handler returns or throws, and the continuation of *)
(* processRequest then runs.                                               *)
(***************************************************************************)
TerminationRequests ==
    RequestsOf({"v1"},
               UNION {[1 .. n -> {[type |-> "execute", name |-> "p1"],
                                  [type |-> "execute", name |-> "p2"]}] :
                         n \in 1 .. MaxOps},
               {NoReturn})

\* the call request b awaits completes, by returning or by throwing
CallCompletes(b) ==
    \/ \E out \in OuterHookOutcomes : BeforeAllDone(b, out)
    \/ \E out \in HookOutcomes : BeforeEachDone(b, out)
    \/ \E output \in HandlerOutputs : ExecuteReturned(b, output)
    \/ \E e \in HandlerThrows : ExecuteThrew(b, e)
    \/ \E custom \in {Ok, CustomError} : OnErrorReturned(b, custom)
    \/ \E e \in OnErrorThrows : OnErrorThrew(b, e)
    \/ \E out \in HookOutcomes : AfterEachInnerDone(b, out)
    \/ \E out \in HookOutcomes : AfterEachOuterDone(b, out)
    \/ \E out \in OuterHookOutcomes : AfterAllDone(b, out)

NextTermination ==
    \/ \E b \in FirstBatch, request \in TerminationRequests :
          Receive(b, NoSocket, request)
    \/ \E b \in Batches : CallCompletes(b)

SpecTermination ==
    /\ Init
    /\ [][NextTermination]_vars
    /\ \A b \in Batches : WF_vars(CallCompletes(b))

(***************************************************************************)
(* What the claims speak of.                                               *)
(***************************************************************************)
OpsOf(b) == 1 .. Len(batch[b].operations)

\* the response entries that carry the id of operation k of request b
EntriesOf(b, k) ==
    SelectSeq(batch[b].response, LAMBDA e : e.id = batch[b].operations[k].id)

\* the completed calls of kind ev made for operation k of request b
EventsOf(b, k, evs) ==
    SelectSeq(batch[b].trace, LAMBDA x : x.i = k /\ x.ev \in evs)

Failed(events) == SelectSeq(events, LAMBDA x : x.out # Ok)

\* the loop of request b has gone past operation k
Finished(b, k) == k \in OpsOf(b) /\ k < batch[b].i

\* processRequest has returned its response
Returned(b) == batch[b].pc = "done"

\* the loop over the operations has ended
LoopEnded(b) == batch[b].pc \in {"afterAll", "done", "failed"}

BeforeEachFailed(b, k) == Failed(EventsOf(b, k, {"beforeEach"})) # <<>>

\* the error entry the code is to record for an error thrown by a hook
EntryOfThrown(b, k, e) ==
    ErrorEntry(batch[b].operations[k].id,
               IF e.kind = "typed" THEN toErrorResponse(e)
               ELSE toErrorResponse(UnhandledError(e)))

\* C1: the response processRequest returns holds exactly one entry for each
\* operation of the request, with that operation's id, whatever the hooks, the
\* routing and the handler of each operation did.
C1_ExactlyOneEntryPerOperation ==
    \A b \in Batches :
        Returned(b) =>
            /\ Len(batch[b].response) = Len(batch[b].operations)
            /\ \A k \in OpsOf(b) : Len(EntriesOf(b, k)) = 1

\* C2: no failure of an operation ends the loop: when the loop has ended every
\* operation of the request has been dispatched (its before-each hook failed, or
\* its routing step ran) and has a response entry, and an operation none of
\* whose own calls failed has its results entry whatever happened to the others.
C2_NoFailureAbortsBatch ==
    \A b \in Batches :
        /\ LoopEnded(b) => batch[b].i = Len(batch[b].operations) + 1
        /\ \A k \in OpsOf(b) :
              Finished(b, k) =>
                  /\ BeforeEachFailed(b, k)
                         \/ EventsOf(b, k, {"processOperation"}) # <<>>
                  /\ Len(EntriesOf(b, k)) >= 1
                  /\ Failed(EventsOf(b, k, {"beforeEach", "processOperation",
                                            "afterEach"})) = <<>>
                         => /\ Len(EntriesOf(b, k)) = 1
                            /\ EntriesOf(b, k)[1].kind = "results"

\* an operation failed and a later operation of the same request was still
\* processed to a results entry
C2_Witness ==
    \E b \in Batches :
        /\ Returned(b)
        /\ Len(batch[b].operations) = 2
        /\ Failed(EventsOf(b, 1, {"beforeEach", "processOperation", "afterEach"}))
               # <<>>
        /\ EntriesOf(b, 2) # <<>>
        /\ EntriesOf(b, 2)[1].kind = "results"

\* C3: when the before-each hook fails for an operation, neither the routing
\* step, a handler nor the after-each hook runs for it; its only response entry
\* is the raised error if that is a JRPCError and the unhandled error otherwise;
\* and the loop has moved on to the next operation.
C3_BeforeEachFailureShortCircuits ==
    \A b \in Batches : \A j \in DOMAIN batch[b].trace :
        LET x == batch[b].trace[j]
            k == x.i
        IN  (x.ev = "beforeEach" /\ x.out # Ok) =>
                /\ EventsOf(b, k, {"processOperation", "execute", "onError",
                                   "registerSocketConnection", "afterEach"}) = <<>>
                /\ Len(EventsOf(b, k, {"beforeEach"})) = 1
                /\ EntriesOf(b, k) = <<EntryOfThrown(b, k, x.out)>>
                /\ batch[b].i > k
                /\ j < Len(batch[b].trace) => batch[b].trace[j + 1].i = k + 1

\* the before-each hook failed for the first operation with an error that is no
\* JRPCError, and the second operation was processed
C3_Witness ==
    \E b \in Batches :
        /\ Returned(b)
        /\ Len(batch[b].operations) = 2
        /\ BeforeEachFailed(b, 1)
        /\ Failed(EventsOf(b, 1, {"beforeEach"}))[1].out.kind = "untyped"
        /\ EventsOf(b, 2, {"processOperation"}) # <<>>

\* C4: when the after-each hook fails for an operation, the response holds a
\* single entry for that operation, and it is the error of the after-each hook.
C4_AfterEachFailureOverwrites ==
    \A b \in Batches : \A k \in OpsOf(b) :
        LET failures == Failed(EventsOf(b, k, {"afterEach"})) IN
        (Finished(b, k) /\ failures # <<>>) =>
            EntriesOf(b, k) = <<EntryOfThrown(b, k, failures[Len(failures)].out)>>

\* C5: for an operation whose before-each hook did not fail the after-each hook
\* is invoked exactly once, after the routing step of the operation.
C5_AfterEachExactlyOnce ==
    \A b \in Batches : \A k \in OpsOf(b) :
        (Finished(b, k) /\ hooks.afterEach /\ ~BeforeEachFailed(b, k)) =>
            /\ Len(EventsOf(b, k, {"afterEach"})) = 1
            /\ LET after == EventsOf(b, k, {"processOperation", "afterEach"}) IN
               after[1].ev = "processOperation"

\* the sockets registered under topic t, and the topics socket s is under
SocketsUnder(byTopic, t) ==
    IF t \in DOMAIN byTopic
    THEN {byTopic[t][j].socket : j \in DOMAIN byTopic[t]} ELSE {}

TopicsOf(bySocket, s) ==
    IF s \in DOMAIN bySocket
    THEN {bySocket[s][j].topic : j \in DOMAIN bySocket[s]} ELSE {}

\* request b has registered its socket under topic t at some time
HasSubscribed(b, t) ==
    \E j \in DOMAIN batch[b].trace :
        /\ batch[b].trace[j].ev = "registerSocketConnection"
        /\ batch[b].operations[batch[b].trace[j].i].name = t

\* C6: the two subscription maps agree in every reachable state: a socket is
\* under topic t in subscriptionsByTopics exactly if t is in the socket's
\* entry of socketsInSubscriptions.
C6_MapsMutuallyConsistent ==
    \A t \in Topics : \A s \in Sockets :
        s \in SocketsUnder(subscriptionsByTopics, t)
            <=> t \in TopicsOf(socketsInSubscriptions, s)

\* a socket that had subscribed was closed while another socket is subscribed
C6_Witness ==
    \E b \in Batches : \E t \in Topics : \E s2 \in Sockets :
        /\ HasSubscribed(b, t)
        /\ socketState[batch[b].socket] = "closed"
        /\ s2 # batch[b].socket
        /\ TopicsOf(socketsInSubscriptions, s2) # {}
        /\ batch[b].socket \notin SocketsUnder(subscriptionsByTopics, t)

\* operation k of request b is a subscribe operation for a topic that has a
\* handler in the request's api version, on a request that came over a socket
SubscribesOverSocket(b, k) ==
    /\ batch[b].socket # NoSocket
    /\ batch[b].operations[k].type = "subscribe"
    /\ batch[b].api \in DOMAIN registeredSubscriptions
    /\ batch[b].operations[k].name \in DOMAIN registeredSubscriptions[batch[b].api]

\* the step registers the socket of request b for its operation k
Registers(b, k) ==
    Len(SelectSeq(batch'[b].trace,
                  LAMBDA x : x.i = k /\ x.ev = "registerSocketConnection"))
        > Len(EventsOf(b, k, {"registerSocketConnection"}))

\* the step that registers leaves the pair of the request and its socket in
\* the list of the topic, and the topic in the entry of the socket
C7_RegistrationStep ==
    \A b \in Batches : \A k \in 1 .. MaxOps :
        Registers(b, k) =>
            LET topic == batch'[b].operations[k].name
                socket == batch'[b].socket
            IN  /\ topic \in DOMAIN subscriptionsByTopics'
                /\ \E j \in DOMAIN subscriptionsByTopics'[topic] :
                       subscriptionsByTopics'[topic][j] =
                           [context |-> b, socket |-> socket]
                /\ socket \in DOMAIN socketsInSubscriptions'
                /\ \E j \in DOMAIN socketsInSubscriptions'[socket] :
                       socketsInSubscriptions'[socket][j].topic = topic

\* the routing step of such an operation registers once and gives no error, and
\* its response entry is the one with results null once the loop is past it
C7_ResultIsNull ==
    \A b \in Batches : \A k \in OpsOf(b) :
        (/\ SubscribesOverSocket(b, k)
         /\ Finished(b, k)
         /\ ~BeforeEachFailed(b, k)) =>
            /\ Len(EventsOf(b, k, {"registerSocketConnection"})) = 1
            /\ Failed(EventsOf(b, k, {"processOperation"})) = <<>>
            /\ Failed(EventsOf(b, k, {"afterEach"})) = <<>> =>
                   EntriesOf(b, k) =
                       <<ResultsEntry(batch[b].operations[k].id, NullResults)>>

IsClose(s) == socketState[s] = "open" /\ socketState'[s] = "closed"

\* C8: the close event of socket s removes the registrations of s and nothing
\* else: s is under no topic and has no reverse entry afterwards, and the
\* entries of the other sockets are all there, in their order.
C8_CloseRemovesExactlyItsSocket ==
    [][\A s \in Sockets :
          IsClose(s) =>
              /\ DOMAIN socketsInSubscriptions' =
                     (DOMAIN socketsInSubscriptions) \ {s}
              /\ \A s2 \in DOMAIN socketsInSubscriptions' :
                     socketsInSubscriptions'[s2] = socketsInSubscriptions[s2]
              /\ DOMAIN subscriptionsByTopics' = DOMAIN subscriptionsByTopics
              /\ \A t \in DOMAIN subscriptionsByTopics :
                     subscriptionsByTopics'[t] =
                         SelectSeq(subscriptionsByTopics[t],
                                   LAMBDA e : e.socket # s)
              /\ connectedSockets' = connectedSockets \ {s}]_vars

\* a closed socket had been registered behind another socket under one topic,
\* and that other socket is still registered there
C8_Witness ==
    \E b1, b2 \in Batches : \E t \in Topics :
        /\ HasSubscribed(b1, t) /\ HasSubscribed(b2, t)
        /\ batch[b1].socket # batch[b2].socket
        /\ socketState[batch[b2].socket] = "closed"
        /\ SocketsUnder(subscriptionsByTopics, t) = {batch[b1].socket}

\* C9: the cleanup of the close listener is idempotent: run twice for a socket
\* id it leaves the maps as one run does, and for an id without registrations
\* it leaves the two subscription maps as they are.
C9_CleanupIdempotent ==
    \A s \in Sockets :
        LET once == closeListener(Registry, s) IN
        /\ closeListener(once, s) = once
        /\ s \notin DOMAIN socketsInSubscriptions =>
               /\ once.subscriptionsByTopics = subscriptionsByTopics
               /\ once.socketsInSubscriptions = socketsInSubscriptions

\* the cleanup has run for a socket with registrations, and a socket without
\* registrations is there beside one that has some
C9_Witness ==
    \E b \in Batches : \E s2 \in Sockets :
        /\ \E t \in Topics : HasSubscribed(b, t)
        /\ socketState[batch[b].socket] = "closed"
        /\ batch[b].socket \notin DOMAIN socketsInSubscriptions
        /\ s2 \in DOMAIN socketsInSubscriptions
        /\ Len(socketsInSubscriptions[s2]) >= 1

\* C10: once the close event of a socket has been processed the socket is
\* registered under no topic, also when a request that arrived on it before
\* the close dispatches a subscribe operation afterwards.
C10_ClosedSocketStaysUnregistered ==
    \A s \in Sockets :
        socketState[s] = "closed" =>
            /\ s \notin DOMAIN socketsInSubscriptions
            /\ \A t \in Topics : s \notin SocketsUnder(subscriptionsByTopics, t)

\* how often socket s is in the list of sockets
Times(sockets, s) == Len(SelectSeq(sockets, LAMBDA x : x = s))

C12_SubscribeWithoutSocketIsError ==
    \A b \in Batches : \A k \in OpsOf(b) :
        (/\ batch[b].socket = NoSocket
         /\ batch[b].operations[k].type = "subscribe"
         /\ Finished(b, k)) =>
            /\ EventsOf(b, k, {"registerSocketConnection"}) = <<>>
            /\ EntriesOf(b, k) # <<>>
            /\ \A j \in DOMAIN EntriesOf(b, k) : EntriesOf(b, k)[j].kind = "error"

\* the after-all hook of request b threw
AfterAllFailed(b) ==
    Failed(SelectSeq(batch[b].trace, LAMBDA x : x.ev = "afterAll")) # <<>>

\* the response of request b left the server
Responded(b) ==
    SelectSeq(batch[b].trace, LAMBDA x : x.ev \in {"send", "respond"}) # <<>>

\* C13: when the after-all hook fails processRequest returns no response: the
\* request ends rejected and nothing is sent, although by then every operation
\* has been dispatched and has its entry; and a request is rejected for no other
\* reason.
C13_AfterAllFailurePropagates ==
    \A b \in Batches :
        /\ AfterAllFailed(b) =>
               /\ batch[b].pc = "failed"
               /\ ~Responded(b)
               /\ batch[b].i = Len(batch[b].operations) + 1
               /\ \A k \in OpsOf(b) : EntriesOf(b, k) # <<>>
        /\ batch[b].pc = "failed" => AfterAllFailed(b)

\* a request of two operations was rejected by its after-all hook with the
\* entries of both operations recorded
C13_Witness ==
    \E b \in Batches :
        /\ batch[b].pc = "failed"
        /\ AfterAllFailed(b)
        /\ Len(batch[b].operations) = 2
        /\ Len(batch[b].response) >= 2

\* the before-all hook of request b threw
BeforeAllFailed(b) ==
    Failed(SelectSeq(batch[b].trace, LAMBDA x : x.ev = "beforeAll")) # <<>>

\* the calls of request b after the first n, as they stand after the step
LaterCalls(calls, n) == SubSeq(calls, n + 1, Len(calls))

\* the step in which the before-all hook of request b completes leaves the
\* request and the subscription maps as the hook's success leaves them
C14_BeforeAllStep ==
    \A b \in Batches :
        (batch[b].pc = "beforeAll" /\ batch'[b].pc # "beforeAll") =>
            LET expected == forOperations(Log(Machine(b), "beforeAll", Ok))
                n == Len(batch[b].trace) + 1
            IN  /\ \A f \in BatchFields \ {"trace"} : batch'[b][f] = expected[f]
                /\ batch'[b].trace[n].ev = "beforeAll"
                /\ LaterCalls(batch'[b].trace, n) = LaterCalls(expected.trace, n)
                /\ subscriptionsByTopics' = expected.byTopic
                /\ socketsInSubscriptions' = expected.bySocket

\* a request whose before-all hook failed is processed to its end
C14_AllProcessed ==
    \A b \in Batches :
        (BeforeAllFailed(b) /\ LoopEnded(b)) =>
            /\ batch[b].i = Len(batch[b].operations) + 1
            /\ \A k \in OpsOf(b) : EntriesOf(b, k) # <<>>
            /\ batch[b].pc = "failed" => AfterAllFailed(b)

\* C14: a failure of the before-all hook is swallowed: the request goes on from
\* the hook exactly as it does when the hook succeeds, so every operation is
\* processed, and a request whose before-all hook failed is never rejected for
\* it: when its loop has ended every operation has its entry.
C14_BeforeAllFailureSwallowed ==
    [][C14_BeforeAllStep]_vars /\ []C14_AllProcessed

\* a request whose before-all hook failed has returned a response with the
\* results entry of its operation
C14_Witness ==
    \E b \in Batches :
        /\ BeforeAllFailed(b)
        /\ Returned(b)
        /\ Responded(b)
        /\ \E k \in OpsOf(b) :
               /\ EntriesOf(b, k) # <<>>
               /\ EntriesOf(b, k)[1].kind = "results"

\* the calls made for the operations of request b, in the order they completed
LoopCalls(b) ==
    SelectSeq(batch[b].trace,
              LAMBDA x : x.ev \in {"beforeEach", "processOperation", "execute",
                                   "onError", "registerSocketConnection",
                                   "afterEach"})

\* a hook or handler call of request b is awaited
InFlight(b) ==
    batch[b].pc \in {"beforeEach", "execute", "onError", "afterEachInner",
                     "afterEachOuter"}

\* C15: the operations of a request are dispatched one after the other in array
\* order, each at most once: the calls made for the operations never go back to
\* an earlier operation, the call that is awaited belongs to the operation the
\* loop is at and no call was made for a later one, no operation is passed
\* over, and the before-each hook, the routing step and the handler run at most
\* once for an operation.
C15_SequentialInArrayOrder ==
    \A b \in Batches :
        LET calls == LoopCalls(b) IN
        /\ \A j \in DOMAIN calls :
               /\ calls[j].i \in OpsOf(b)
               /\ calls[j].i <= batch[b].i
               /\ j > 1 => calls[j - 1].i <= calls[j].i
        /\ InFlight(b) => batch[b].i \in OpsOf(b)
        /\ \A k \in OpsOf(b) :
               /\ Len(EventsOf(b, k, {"beforeEach"})) <= 1
               /\ Len(EventsOf(b, k, {"processOperation"})) <= 1
               /\ Len(EventsOf(b, k, {"execute"})) <= 1
               /\ Len(EventsOf(b, k, {"registerSocketConnection"})) <= 1
               /\ Finished(b, k) =>
                      EventsOf(b, k, {"beforeEach", "processOperation"}) # <<>>
               /\ \A j \in DOMAIN EventsOf(b, k, {"execute", "afterEach"}) :
                      EventsOf(b, k, {"execute", "afterEach"})[j].ev = "execute"
                          => j = 1

\* a request of two operations has returned with the handler of each called,
\* the second after the after-each hook of the first had failed
C15_Witness ==
    \E b \in Batches :
        /\ Returned(b)
        /\ Len(batch[b].operations) = 2
        /\ EventsOf(b, 1, {"execute"}) # <<>>
        /\ EventsOf(b, 2, {"execute"}) # <<>>
        /\ Failed(EventsOf(b, 1, {"afterEach"})) # <<>>

\* the places of the calls of kind ev in the history of request b
PlacesOf(b, evs) == {j \in DOMAIN batch[b].trace : batch[b].trace[j].ev \in evs}

\* C16: the life cycle of a request has a fixed order.  The before-all hook
\* runs at most once and is the first call made.  The projection of the
\* resources runs exactly once when the loop has ended, after every call made
\* for an operation, with every operation recorded, and before the after-all
\* hook.  The after-all hook runs at most once, after the projection.  The
\* response leaves at most once, as the last thing, and where an after-all hook
\* is set only after that hook has completed without error.
C16_LifecycleOrder ==
    \A b \in Batches :
        LET T == batch[b].trace
            loop == PlacesOf(b, {"beforeEach", "processOperation", "execute",
                                 "onError", "registerSocketConnection",
                                 "afterEach"})
            first == PlacesOf(b, {"beforeAll"})
            projection == PlacesOf(b, {"returnSelectedProps"})
            last == PlacesOf(b, {"afterAll"})
            out == PlacesOf(b, {"send", "respond"})
        IN  /\ first \subseteq {1}
            /\ (hooks.beforeAll /\ T # <<>>) => first = {1}
            /\ Cardinality(projection) <= 1
            /\ LoopEnded(b) <=> projection # {}
            /\ \A p \in projection :
                   /\ \A j \in loop : j < p
                   /\ T[p].i = Len(batch[b].operations) + 1
                   /\ \A k \in OpsOf(b) : EntriesOf(b, k) # <<>>
                   /\ \A j \in last \cup out : p < j
            /\ Cardinality(last) <= 1
            /\ last # {} => projection # {}
            /\ Cardinality(out) <= 1
            /\ Returned(b) <=> out # {}
            /\ \A o \in out :
                   /\ o = Len(T)
                   /\ hooks.afterAll => /\ last = {o - 1}
                                        /\ T[o - 1].out = Ok

\* a request with every hook set has returned its response: the before-all
\* hook, calls for two operations, the projection, the after-all hook and the
\* send are all in its history
C16_Witness ==
    \E b \in Batches :
        /\ Returned(b)
        /\ hooks.beforeAll /\ hooks.afterAll
        /\ Len(batch[b].operations) = 2
        /\ PlacesOf(b, {"beforeAll"}) # {}
        /\ PlacesOf(b, {"execute"}) # {}
        /\ PlacesOf(b, {"returnSelectedProps"}) # {}
        /\ PlacesOf(b, {"afterAll"}) # {}
        /\ PlacesOf(b, {"send"}) # {}

\* operation k of request b has an error entry in the response
Errored(b, k) ==
    \E j \in DOMAIN EntriesOf(b, k) : EntriesOf(b, k)[j].kind = "error"

\* the references the results entries of operation k of request b list
RefsOf(b, k) ==
    UNION {{EntriesOf(b, k)[j].results.refs[n] :
               n \in DOMAIN EntriesOf(b, k)[j].results.refs} :
           j \in DOMAIN EntriesOf(b, k)}

\* C17: nothing an operation with an error entry produced is in the resource
\* map of the response: every resource of the map is listed in the results of
\* an operation that has no error entry.
C17_NoResourcesOfFailedOperations ==
    \A b \in Batches : \A reference \in DOMAIN batch[b].resources :
        \E k \in OpsOf(b) : ~Errored(b, k) /\ reference \in RefsOf(b, k)

\* C18: the results of an operation go by the number of resources of its
\* result: null for none, the reference itself (not a list) for one, the list
\* of references for two or more; and every reference of the results has its
\* resource in the resource map.
C18_ResultsShapeByCount ==
    \A b \in Batches : \A j \in DOMAIN batch[b].response :
        LET entry == batch[b].response[j]
            count == Len(entry.results.refs)
        IN  entry.kind = "results" =>
                /\ entry.results.shape =
                       IF count = 0 THEN "null"
                       ELSE IF count = 1 THEN "single" ELSE "list"
                /\ \A n \in 1 .. count :
                       entry.results.refs[n] \in DOMAIN batch[b].resources
                /\ (Len(batch[b].operations) = 1 /\ ~Errored(b, 1)) =>
                       count = Cardinality(DOMAIN batch[b].resources)

\* the error the handler of operation k of request b threw, and what the
\* onError hook gave for it (Ok where no hook is set or it returned undefined)
ThrownBy(b, k) == Failed(EventsOf(b, k, {"execute"}))[1].out
OnErrorGave(b, k) ==
    IF EventsOf(b, k, {"onError"}) = <<>> THEN Ok
    ELSE EventsOf(b, k, {"onError"})[1].out

\* the routing step of operation k of request b has ended after its handler
\* threw
HandlerThrew(b, k) ==
    /\ Failed(EventsOf(b, k, {"execute"})) # <<>>
    /\ EventsOf(b, k, {"processOperation"}) # <<>>

\* C19: when a handler throws and no onError hook gives an error in its place,
\* the error recorded by the routing step is the thrown error itself, with its
\* code and message, if it is a JRPCError, and otherwise the unhandled error,
\* whose details hold the constructor name and the message of what was thrown.
C19_ThrownErrorNormalized ==
    \A b \in Batches : \A k \in OpsOf(b) :
        (HandlerThrew(b, k) /\ OnErrorGave(b, k) = Ok) =>
            LET e == ThrownBy(b, k)
                entry == EntriesOf(b, k)[1]
            IN  /\ entry.kind = "error"
                /\ e.kind = "typed" =>
                       /\ entry.error.code = e.code
                       /\ entry.error.message = e.message
                       /\ entry.error.details = e.details
                /\ e.kind = "untyped" =>
                       /\ entry.error.code = "JRPC_UNHANDLED_ERROR"
                       /\ entry.error.message = "An unhandled error occurred."
                       /\ entry.error.details =
                              [error_name |-> e.name, error_message |-> e.message]

\* with the onError hook set and returning undefined, one handler threw a
\* JRPCError and another an error that is none, and both are recorded
C19_Witness ==
    \E b \in Batches :
        /\ hooks.onError
        /\ Len(batch[b].operations) = 2
        /\ HandlerThrew(b, 1) /\ HandlerThrew(b, 2)
        /\ OnErrorGave(b, 1) = Ok /\ OnErrorGave(b, 2) = Ok
        /\ EventsOf(b, 1, {"onError"}) # <<>>
        /\ ThrownBy(b, 1).kind = "typed"
        /\ ThrownBy(b, 2).kind = "untyped"
        /\ EntriesOf(b, 2)[1].error.details.error_name = "TypeError"

\* C20: when a handler throws and the onError hook gives a JRPCError, that
\* error is the one the routing step records, whether the handler threw a
\* JRPCError or not; when the hook gives nothing the thrown JRPCError, or the
\* unhandled error for any other thrown value, is recorded.
C20_OnErrorValueWins ==
    \A b \in Batches : \A k \in OpsOf(b) :
        (HandlerThrew(b, k) /\ EventsOf(b, k, {"onError"}) # <<>>) =>
            LET e == ThrownBy(b, k)
                custom == OnErrorGave(b, k)
                entry == EntriesOf(b, k)[1]
            IN  /\ entry.kind = "error"
                /\ custom.kind = "typed" =>
                       /\ entry.error.code = custom.code
                       /\ entry.error.message = custom.message
                /\ custom = Ok =>
                       entry.error.code =
                           IF e.kind = "typed" THEN e.code
                           ELSE "JRPC_UNHANDLED_ERROR"

\* the onError hook gave its own error for a thrown JRPCError and for a thrown
\* error that is none, and it is recorded for both
C20_Witness ==
    \E b \in Batches :
        /\ Len(batch[b].operations) = 2
        /\ HandlerThrew(b, 1) /\ HandlerThrew(b, 2)
        /\ ThrownBy(b, 1).kind = "typed"
        /\ ThrownBy(b, 2).kind = "untyped"
        /\ OnErrorGave(b, 1) = CustomError /\ OnErrorGave(b, 2) = CustomError
        /\ EntriesOf(b, 1)[1].error.code = "CUSTOM_ERROR"
        /\ EntriesOf(b, 2)[1].error.code = "CUSTOM_ERROR"

\* operation k of request b is an execute operation whose procedure has no
\* handler under the api version of the request
UnregisteredProcedure(b, k) ==
    /\ batch[b].operations[k].type = "execute"
    /\ \/ batch[b].api \notin DOMAIN registeredProcedures
       \/ batch[b].operations[k].name
              \notin DOMAIN registeredProcedures[batch[b].api]

\* C21: an execute operation whose procedure has no handler under the api
\* version of the request has exactly one entry, an error entry with the code
\* "PROCEDURE_NOT_FOUND"; no handler is invoked for it and the resource map
\* gains nothing by it.
C21_UnregisteredProcedureNotFound ==
    \A b \in Batches : \A k \in OpsOf(b) :
        (/\ UnregisteredProcedure(b, k)
         /\ EventsOf(b, k, {"processOperation"}) # <<>>
         /\ Finished(b, k)) =>
            /\ EventsOf(b, k, {"execute", "registerSocketConnection"}) = <<>>
            /\ Len(EntriesOf(b, k)) = 1
            /\ EntriesOf(b, k)[1].kind = "error"
            /\ EntriesOf(b, k)[1].error.code = "PROCEDURE_NOT_FOUND"
            /\ RefsOf(b, k) = {}

\* operation k of request b is a subscribe operation of a request that came
\* over a socket, for a topic that has no handler under the api version of the
\* request
UnregisteredTopic(b, k) ==
    /\ batch[b].socket # NoSocket
    /\ batch[b].operations[k].type = "subscribe"
    /\ \/ batch[b].api \notin DOMAIN registeredSubscriptions
       \/ batch[b].operations[k].name
              \notin DOMAIN registeredSubscriptions[batch[b].api]

\* C22: a subscribe operation that came over a socket for a topic without a
\* subscription handler under the api version of the request is recorded as the
\* SubscriptionNotFound error, and it registers nothing: no registration is
\* made for it and the socket is not under that topic in either map.
C22_UnregisteredTopicNotFound ==
    \A b \in Batches : \A k \in OpsOf(b) :
        (UnregisteredTopic(b, k) /\ EventsOf(b, k, {"processOperation"}) # <<>>) =>
            /\ EventsOf(b, k, {"processOperation"})[1].out = SubscriptionNotFound
            /\ EventsOf(b, k, {"registerSocketConnection", "execute"}) = <<>>
            /\ EntriesOf(b, k) # <<>>
            /\ EntriesOf(b, k)[1] =
                   ErrorEntry(batch[b].operations[k].id,
                              toErrorResponse(SubscriptionNotFound))
            /\ batch[b].socket
                   \notin SocketsUnder(subscriptionsByTopics,
                                       batch[b].operations[k].name)
            /\ batch[b].operations[k].name
                   \notin TopicsOf(socketsInSubscriptions, batch[b].socket)

\* over one socket a subscribe for a topic that is registered under another api
\* version only was recorded as not found, and the subscribe for a registered
\* topic that follows it registered the socket
C22_Witness ==
    \E b \in Batches :
        /\ Returned(b)
        /\ Len(batch[b].operations) = 2
        /\ batch[b].api = "v2"
        /\ batch[b].operations[1].name = "t2"
        /\ UnregisteredTopic(b, 1)
        /\ EntriesOf(b, 1)[1].error.code = "JRPC_SUBSCRIPTION_NOT_FOUND"
        /\ SubscribesOverSocket(b, 2)
        /\ TopicsOf(socketsInSubscriptions, batch[b].socket) = {"t1"}

\* the api version of request b has a handler for the resource that operation k
\* names
HasResourceHandler(b, k) ==
    /\ batch[b].api \in DOMAIN resourceHandlers
    /\ batch[b].operations[k].name \in DOMAIN resourceHandlers[batch[b].api]

\* the calls of handler methods made for operation k of request b, completed
\* or awaited
MethodCalls(b, k) ==
    EventsOf(b, k, Methods \cup {"execute", "subscribe"})

OperationTypes == {"execute", "create", "update", "fetch", "delete", "subscribe"}

\* operation k of request b has an entry with the OperationTypeNotSupported
\* error
RecordedAsUnsupported(b, k) ==
    \E j \in DOMAIN EntriesOf(b, k) :
        EntriesOf(b, k)[j] =
            ErrorEntry(batch[b].operations[k].id,
                       toErrorResponse(OperationTypeNotSupported))

\* C24: an operation the routing step has dealt with is recorded with the
\* OperationTypeNotSupported error exactly if its type is none of execute,
\* create, update, fetch, delete and subscribe, and for an operation of such a
\* type no handler is called.
C24_UnsupportedIffOutsideTheSix ==
    \A b \in Batches : \A k \in OpsOf(b) :
        EventsOf(b, k, {"processOperation"}) # <<>> =>
            /\ RecordedAsUnsupported(b, k)
                   <=> batch[b].operations[k].type \notin OperationTypes
            /\ batch[b].operations[k].type \notin OperationTypes =>
                   EventsOf(b, k, Methods \cup {"execute", "subscribe",
                                                "registerSocketConnection"}) = <<>>

\* the resources the handlers return
Fixtures == {User1, Post2, User3}

\* the resource a handler returned under the reference
Original(reference) ==
    CHOOSE r \in Fixtures : getResourceReference(r) = reference

\* the projection of the resources of request b has run
Projected(b) == PlacesOf(b, {"returnSelectedProps"}) # {}

\* resource `out` has the fields `fields` of resource r, with their values
KeepsOnly(out, r, fields) ==
    /\ DOMAIN out \subseteq fields
    /\ fields \cap DOMAIN r \subseteq DOMAIN out
    /\ \A p \in fields \cap DOMAIN r : out[p] = r[p]

\* C25: the projection goes by the type name of each resource.  A resource
\* whose type name has an allow-list in the return map of the request keeps its
\* allow-listed fields only; every other resource keeps all its fields but
\* _resource_id and _resource_name.  Until the projection the resources are as
\* the handlers returned them.
C25_ProjectionByTypeName ==
    \A b \in Batches : \A reference \in DOMAIN batch[b].resources :
        LET r == Original(reference)
            out == batch[b].resources[reference]
        IN  IF ~Projected(b) THEN out = r
            ELSE IF r._resource_name \in DOMAIN batch[b].ret
            THEN KeepsOnly(out, r, batch[b].ret[r._resource_name])
            ELSE KeepsOnly(out, r, (DOMAIN r) \ ReservedProps)

\* the request asked for the name of users and its operations returned a user
\* and a post: the user is cut down to its name, the post has lost its two
\* reserved fields only
C25_Witness ==
    \E b \in Batches :
        /\ Returned(b)
        /\ batch[b].ret = [user |-> {"name"}]
        /\ batch[b].resources =
               ("user:1" :> [name |-> "Al"]) @@ ("post:2" :> [title |-> "T"])

\* C26: a resource projected with an allow-list L has exactly the fields of L:
\* _resource_id and _resource_name are there exactly if L lists them, no field
\* outside L is left, and a field the resource had keeps its value.
C26_SelectYieldsExactlyTheList ==
    \A b \in Batches : \A reference \in DOMAIN batch[b].resources :
        LET r == Original(reference)
            out == batch[b].resources[reference]
        IN  (Projected(b) /\ r._resource_name \in DOMAIN batch[b].ret) =>
                LET L == batch[b].ret[r._resource_name] IN
                /\ DOMAIN out = L
                /\ \A p \in ReservedProps : p \in DOMAIN out <=> p \in L
                /\ \A p \in L \cap DOMAIN r : out[p] = r[p]

\* the allow-list named a reserved field and left out the other one and a
\* field of the resource: the projected user has the two listed fields
C26_Witness ==
    \E b \in Batches :
        /\ Returned(b)
        /\ batch[b].ret = [user |-> {"name", "_resource_id"}]
        /\ "user:3" \in DOMAIN batch[b].resources
        /\ batch[b].resources["user:3"] = [name |-> "Bo", _resource_id |-> "3"]

\* the step of request b runs the projection and nothing before it but the
\* catch block of the last after-each call: the after-each hook of the last
\* operation was awaited behind the try/catch, and the after-all hook is next
ProjectionStep(b) ==
    /\ batch[b].pc = "afterEachOuter"
    /\ batch'[b].pc = "afterAll"

\* what the last after-each call of request b gave
LastAfterEach(b) == batch'[b].trace[Len(batch[b].trace) + 1].out

\* the references the projected response lists are keys of its resource map
C27_ReferencesResolve ==
    \A b \in Batches : \A k \in OpsOf(b) :
        Projected(b) => RefsOf(b, k) \subseteq DOMAIN batch[b].resources

\* the step that projects leaves the keys of the resource map as they were and
\* the entries as they were, but for the entry of a failure of the after-each
\* call that ended in the same step
C27_ProjectionStepFrame ==
    \A b \in Batches :
        ProjectionStep(b) =>
            /\ DOMAIN batch'[b].resources = DOMAIN batch[b].resources
            /\ batch'[b].response =
                   IF LastAfterEach(b) = Ok THEN batch[b].response
                   ELSE Append(batch[b].response,
                               EntryOfThrown(b, batch[b].i, LastAfterEach(b)))

\* C27: the projection changes the fields of the resources only: the entries of
\* the operations, with their ids, results references and errors, and the set
\* of keys of the resource map are after the projection what they were before,
\* and every reference of the entries is still a key of the map.
C27_ProjectionKeepsEntriesAndKeys ==
    []C27_ReferencesResolve /\ [][C27_ProjectionStepFrame]_vars

\* the projection has cut a user down to its name in a response whose entry
\* still lists the reference of that user, on a server with an after-each hook
C27_Witness ==
    \E b \in Batches :
        /\ hooks.afterEach
        /\ Projected(b)
        /\ batch[b].pc = "afterAll"
        /\ "user:1" \in RefsOf(b, 1)
        /\ batch[b].resources =
               ("user:1" :> [name |-> "Al"]) @@ ("post:2" :> [title |-> "T"])

\* C28: the reference is unique per pair of _resource_name and _resource_id: a
\* resource an operation returns has the reference of a resource that is in
\* the resource map of the response, as an earlier operation returned it,
\* exactly if the two have the same _resource_name and the same _resource_id.
C28_ReferenceUniquePerNameAndId ==
    \A b \in Batches :
        (batch[b].pc = "afterEachInner" /\ ~Projected(b)) =>
            \A j \in DOMAIN batch[b].result.items :
                \A reference \in DOMAIN batch[b].resources :
                    LET r1 == batch[b].resources[reference]
                        r2 == batch[b].result.items[j].resource
                    IN  batch[b].result.items[j].ref = reference
                            <=> /\ r1._resource_name = r2._resource_name
                                /\ r1._resource_id = r2._resource_id

\* socket s is under topic t in the one map exactly if it is in the other
MapsAgree(byTopic, bySocket) ==
    \A t \in Topics : \A s \in Sockets :
        s \in SocketsUnder(byTopic, t) <=> t \in TopicsOf(bySocket, s)

\* the step is one of a reader of the maps: a publish, or a request that goes
\* on
ReaderStep ==
    \/ published'.count # published.count
    \/ \E b \in Batches : batch'[b] # batch[b]

\* a step that writes one of the two maps writes the other, for the same socket
\* and the same topic, and a reader starts from maps that agree and leaves maps
\* that agree
C29_MapsWrittenInOneStep ==
    /\ (subscriptionsByTopics' # subscriptionsByTopics)
           <=> (socketsInSubscriptions' # socketsInSubscriptions)
    /\ \A t \in Topics : \A s \in Sockets :
           (s \in SocketsUnder(subscriptionsByTopics', t)
                <=> s \in SocketsUnder(subscriptionsByTopics, t))
               <=> (t \in TopicsOf(socketsInSubscriptions', s)
                        <=> t \in TopicsOf(socketsInSubscriptions, s))
    /\ ReaderStep =>
           /\ MapsAgree(subscriptionsByTopics, socketsInSubscriptions)
           /\ MapsAgree(subscriptionsByTopics', socketsInSubscriptions')

\* C29: subscriptionsByTopics and socketsInSubscriptions are written together:
\* a close event or a subscribe changes both within one step, so that a publish
\* or a request that runs between the steps of the others never finds a socket
\* in one map and not in the other.
C29_MapsUpdatedTogether == [][C29_MapsWrittenInOneStep]_vars

\* a socket that was under a topic was closed while another socket was under
\* the same topic, and the publish to that topic that came after the close went
\* to the other socket alone
C29_Witness ==
    \E s1, s2 \in Sockets : \E b \in Batches :
        /\ s1 # s2
        /\ socketState[s1] = "closed"
        /\ batch[b].socket = s1
        /\ HasSubscribed(b, published.topic)
        /\ TopicsOf(socketsInSubscriptions, s1) = {}
        /\ SocketsUnder(subscriptionsByTopics, published.topic) = {s2}
        /\ published.count >= 1
        /\ published.received = <<s2>>

NoHandler == [api |-> "none", name |-> "none"]

\* this.registeredProcedures.get(api), then apiProcedures.get(name)
lookup(registered, api, name) ==
    IF api \in DOMAIN registered /\ name \in DOMAIN registered[api]
    THEN registered[api][name] ELSE NoHandler

\* the handler of the last registration of the kind under the api version and
\* the name
LastRegistered(kind, api, name) ==
    LET at == {k \in DOMAIN registrations :
                  /\ registrations[k].kind = kind
                  /\ registrations[k].handler.api = api
                  /\ registrations[k].handler.name = name}
    IN  IF at = {} THEN NoHandler
        ELSE registrations[CHOOSE k \in at : \A j \in at : j <= k].handler

\* C30: registration is last-write-wins for each pair of api version and name:
\* after any registrations the lookup of a procedure or of a subscription under
\* a pair gives the handler registered last under that pair, and none where
\* nothing was registered under it.
C30_LastRegistrationWins ==
    \A api \in ApiVersions :
        /\ \A name \in ProcedureNames :
               lookup(registeredProcedures, api, name)
                   = LastRegistered("procedure", api, name)
        /\ \A name \in Topics :
               lookup(registeredSubscriptions, api, name)
                   = LastRegistered("subscription", api, name)

\* another handler was registered under the pair (v1, p1) after a first one,
\* and the lookup gives the later one
C30_Witness ==
    \E j, k \in DOMAIN registrations :
        /\ j < k
        /\ registrations[j] =
               [kind |-> "procedure",
                handler |-> [api |-> "v1", name |-> "p1", handler |-> "h1"]]
        /\ registrations[k] =
               [kind |-> "procedure",
                handler |-> [api |-> "v1", name |-> "p1", handler |-> "h2"]]
        /\ lookup(registeredProcedures, "v1", "p1").handler = "h2"
        /\ LastRegistered("procedure", "v1", "p1").handler = "h2"

\* request b has a RequestContext: its processRequest call has started
HasContext(b) == batch[b].context # NoContext

\* what a hook or handler of a request reads at each key is nothing or what a
\* hook of the same request wrote
C31_ReadsOwnWritesOnly ==
    \A b \in Batches : \A key \in ContextKeys :
        HasContext(b) => get(b, key) \in {NoValue, b}

\* what a hook of a request wrote stays readable in the steps that follow, and
\* a key changes for a request only in a step of its own hook
C31_WritesStay ==
    \A b \in Batches : \A key \in ContextKeys :
        HasContext(b) =>
            /\ get(b, key) = b => get(b, key)' = b
            /\ get(b, key)' # get(b, key) => batch[b].pc = "beforeEach"

\* C31: a RequestContext belongs to one request.  A value a hook writes into
\* its scratch space is read by the later hooks and handlers of the same
\* request, and no other request reads it, whatever the order in which the
\* requests take their steps.
C31_ContextBelongsToOneBatch ==
    []C31_ReadsOwnWritesOnly /\ [][C31_WritesStay]_vars

\* two requests are in flight, one at the handler of its second operation and
\* one at a handler too, and each reads under the same key what its own
\* before-each hook wrote
C31_Witness ==
    \E b1, b2 \in Batches :
        /\ b1 # b2
        /\ batch[b1].pc = "execute" /\ batch[b1].i = 2
        /\ batch[b2].pc = "execute"
        /\ get(b1, "user") = b1
        /\ get(b2, "user") = b2

\* C32: on a Server constructed for production the unhandled error recorded
\* for an untyped error of a handler carries no details, and on a Server
\* constructed for another environment it carries them.
C32_NoDetailsInProduction ==
    \A b \in Batches : \A k \in OpsOf(b) :
        \A e \in HandlerThrows \ {x \in HandlerThrows : IsJRPCError(x)} :
            /\ EventsOf(b, k, {"execute"}) = <<[ev |-> "execute", i |-> k, out |-> e]>>
            /\ EntriesOf(b, k) # <<>>
            => LET details == EntriesOf(b, k)[1].error.details IN
               /\ EntriesOf(b, k)[1].error.code = "JRPC_UNHANDLED_ERROR"
               /\ configuration.env = "production" => details = NoDetails
               /\ configuration.env # "production" => details = getErrorDetails(e)

\* the HTTP requests and the messages the transport is to turn down
TransportErrors ==
    {req \in HTTPRequests :
        \/ req.upgrade # "null"
        \/ req.method \notin {"POST", "GET"}
        \/ req.method = "GET" /\ req.pathname # "/definitions"
        \/ req.method = "POST" /\ req.body.is # "json"}

MessageErrors == {data \in Contents : data.is # "json"}

\* for request b nothing was done but to answer with one error response: no
\* call of processRequest, no hook, no handler, no entry
OnlyErrorResponse(b, socket) ==
    /\ batch[b].pc = "done"
    /\ batch[b].context = NoContext
    /\ batch[b].response = <<>> /\ batch[b].resources = <<>>
    /\ batch[b].api = "unknown"
    /\ batch[b].socket = socket
    /\ Len(batch[b].trace) = 1
    /\ batch[b].trace[1].ev = (IF socket = NoSocket THEN "respond" ELSE "send")
    /\ IsJRPCError(batch[b].trace[1].out)

\* the step that takes in a request or message of the transport-error class
\* answers it with the error response and does nothing else
C33_TransportErrorStep ==
    \A b \in Batches :
        /\ \A req \in TransportErrors :
               HandlerCalled(b, req) => OnlyErrorResponse(b, NoSocket)'
        /\ \A socket \in Sockets : \A data \in MessageErrors :
               MessageReceived(b, socket, data) => OnlyErrorResponse(b, socket)'

\* a request answered with an error response stays as it is: no hook or handler
\* runs for it later and no second response leaves
C33_ErrorResponseIsFinal ==
    \A b \in Batches :
        (\E socket \in Sockets \cup {NoSocket} : OnlyErrorResponse(b, socket))
            => UNCHANGED batch[b]

\* C33: for an unsupported HTTP method, a missing body, a payload that is no
\* JSON and an unsupported upgrade the dispatcher is not invoked, no hook and no
\* handler runs, and the caller gets one response, the error response, which
\* is no batch response.
C33_TransportErrorsBypassDispatcher ==
    [][C33_TransportErrorStep]_vars /\ [][C33_ErrorResponseIsFinal]_vars

\* on a Server with hooks a websocket message that is no JSON was answered with
\* the error response while an HTTP request is with the dispatcher
C33_Witness ==
    /\ hooks.beforeAll
    /\ \E b1, b2 \in Batches :
          /\ OnlyErrorResponse(b1, 1)
          /\ batch[b1].trace[1].out = InvalidJsonContent
          /\ batch[b2].pc = "execute"

\* C34: every error entry of a response carries a protocol error, which has a
\* code: what a procedure handler, registerSocketConnection, the before-each
\* hook, the after-each hook or the onError hook threw is recorded as itself
\* when it is a JRPCError and as the UnhandledError made of it otherwise, and is
\* never recorded as it was thrown when it is no JRPCError.
C34_ErrorEntriesNormalized ==
    \A b \in Batches : \A n \in DOMAIN batch[b].response :
        LET entry == batch[b].response[n] IN
        entry.kind = "error" =>
            /\ entry.error.code # "undefined"
            /\ entry.error.code = "JRPC_UNHANDLED_ERROR"
                   \/ \E e \in HookThrows \cup HandlerThrows \cup {CustomError,
                          ProcedureNotFound, SubscriptionNotFound,
                          OperationTypeNotSupported} :
                          IsJRPCError(e) /\ entry.error = toErrorResponse(e)

\* the calls of the onError hook made for operation k of request b, the one
\* awaited included
OnErrorCalls(b, k) ==
    Len(EventsOf(b, k, {"onError"}))
        + (IF batch[b].pc = "onError" /\ batch[b].i = k THEN 1 ELSE 0)

\* C35: on a Server with an onError hook the hook is called once for each
\* error a handler throws, and it is called for nothing else: not for an
\* operation whose handler was not found or whose type is not supported, and
\* not for a failure of the before-all, before-each, after-each or after-all
\* hook.
C35_OnErrorOncePerHandlerError ==
    \A b \in Batches :
        /\ \A k \in OpsOf(b) :
               OnErrorCalls(b, k) =
                   (IF hooks.onError THEN Len(Failed(EventsOf(b, k, {"execute"})))
                    ELSE 0)
        /\ Len(SelectSeq(batch[b].trace, LAMBDA x : x.ev = "onError"))
               <= Len(Failed(SelectSeq(batch[b].trace, LAMBDA x : x.ev = "execute")))
        /\ batch[b].pc = "onError" =>
               /\ batch[b].i \in OpsOf(b)
               /\ batch[b].trace[Len(batch[b].trace)].ev = "execute"

\* a request has ended in which the handler of one operation threw and the
\* onError hook was called for it, while the other operation named no
\* registered procedure and the after-each hook failed, with no call of the
\* onError hook for either
C35_Witness ==
    \E b \in Batches :
        /\ hooks.onError
        /\ LoopEnded(b)
        /\ Len(batch[b].operations) = 2
        /\ \E k, j \in OpsOf(b) :
              /\ k # j
              /\ HandlerThrew(b, k) /\ OnErrorCalls(b, k) = 1
              /\ UnregisteredProcedure(b, j)
              /\ Failed(EventsOf(b, j, {"afterEach"})) # <<>>
              /\ OnErrorCalls(b, j) = 0

\* C36: every reference in the results of an entry of a response is a key of
\* the resource map of that response, while the response is built, after the
\* projection and when it leaves, also where the handler mapped the reference
\* to null.
C36_ResultsReferToResources ==
    \A b \in Batches : \A n \in DOMAIN batch[b].response :
        LET results == batch[b].response[n].results IN
        \A j \in DOMAIN results.refs :
            results.refs[j] \in DOMAIN batch[b].resources

\* the handlers passed to the register call of the step, with their kind
NewRegistrations ==
    {registrations'[k] : k \in (DOMAIN registrations') \ (DOMAIN registrations)}

\* a step that registers handlers changes the lookup of no pair of api version
\* and name but those of the handlers it was passed
C37_RegistrationFrame ==
    \A api \in ApiVersions :
        /\ \A name \in ProcedureNames :
               (\A r \in NewRegistrations :
                    ~(r.kind = "procedure" /\ r.handler.api = api
                                           /\ r.handler.name = name))
                   => lookup(registeredProcedures, api, name)'
                          = lookup(registeredProcedures, api, name)
        /\ \A name \in Topics :
               (\A r \in NewRegistrations :
                    ~(r.kind = "subscription" /\ r.handler.api = api
                                              /\ r.handler.name = name))
                   => lookup(registeredSubscriptions, api, name)'
                          = lookup(registeredSubscriptions, api, name)

\* the step that routes the operation of a request finds a handler exactly if
\* one was registered under the api version of the request and the name, and
\* records the ProcedureNotFound error otherwise, whatever is registered under
\* the other api versions
C37_RoutingByVersion ==
    \A b \in Batches :
        (batch[b].pc = "idle" /\ batch'[b].pc # "idle") =>
            LET api == batch'[b].api
                name == batch'[b].operations[1].name
                found == LastRegistered("procedure", api, name) # NoHandler
            IN  /\ found => batch'[b].pc = "execute"
                /\ ~found =>
                       /\ batch'[b].pc = "done"
                       /\ batch'[b].response =
                              <<ErrorEntry(batch'[b].operations[1].id,
                                           toErrorResponse(ProcedureNotFound))>>

\* C37: the lookup of a handler is by api version and name.  Registering a
\* handler under a pair leaves the handler of every other pair as it was, and
\* an operation of a request under one api version is resolved against that
\* version only: it is not found unless its name is registered under it.
C37_LookupIsolatedPerVersion ==
    [][C37_RegistrationFrame]_vars /\ [][C37_RoutingByVersion]_vars

\* p1 is registered under v1 and not under v2; a request under v2 that named p1
\* was recorded as not found and a request under v1 that named it is at its
\* handler
C37_Witness ==
    /\ lookup(registeredProcedures, "v1", "p1") # NoHandler
    /\ lookup(registeredProcedures, "v2", "p1") = NoHandler
    /\ \E b1, b2 \in Batches :
          /\ batch[b1].api = "v2" /\ batch[b1].pc = "done"
          /\ batch[b1].operations[1].name = "p1"
          /\ batch[b1].response[1].error.code = "JRPC_PROCEDURE_NOT_FOUND"
          /\ batch[b2].api = "v1" /\ batch[b2].pc = "execute"
          /\ batch[b2].operations[1].name = "p1"

\* the responses sent for request b over its socket
Sends(b) == SelectSeq(batch[b].trace, LAMBDA x : x.ev = "send")

\* request b came over a socket and its processing has ended
EndedOnSocket(b) ==
    batch[b].socket # NoSocket /\ batch[b].pc \in {"done", "failed"}

\* a response of request b left only over the socket of b, as the last thing
\* done for b, after every operation got its entry and the after-all hook, if
\* set, returned
SentLast(b) ==
    /\ Len(Sends(b)) <= 1
    /\ SelectSeq(batch[b].trace, LAMBDA x : x.ev = "respond") = <<>>
    /\ Sends(b) # <<>> =>
           /\ batch[b].pc = "done"
           /\ batch[b].trace[Len(batch[b].trace)].ev = "send"
           /\ batch[b].i = Len(batch[b].operations) + 1
           /\ \A k \in OpsOf(b) : EntriesOf(b, k) # <<>>
           /\ hooks.afterAll =>
                  batch[b].trace[Len(batch[b].trace) - 1]
                      = [ev |-> "afterAll", i |-> batch[b].i, out |-> Ok]

Ended(b) == batch[b].pc \in {"done", "failed"}

\* every operation the loop has passed was visited once: its before-each hook
\* ran at most once, and it was routed once, or not at all where that hook
\* failed; a run that has ended has passed every operation, and it ended by
\* returning the response or by the failure of the after-all hook
C39_VisitedOnce ==
    \A b \in Batches :
        /\ \A k \in OpsOf(b) :
               /\ Len(EventsOf(b, k, {"beforeEach"})) <= 1
               /\ Len(EventsOf(b, k, {"processOperation"})) <= 1
               /\ Len(EventsOf(b, k, {"execute"})) <= 1
               /\ Finished(b, k) =>
                      Len(EventsOf(b, k, {"processOperation"}))
                          = (IF BeforeEachFailed(b, k) THEN 0 ELSE 1)
        /\ Ended(b) =>
               /\ batch[b].i = Len(batch[b].operations) + 1
               /\ batch[b].pc = "done" <=> Responded(b)
               /\ batch[b].pc = "failed" <=> AfterAllFailed(b)

\* a request that was received comes to its end
C39_RunEnds ==
    \A b \in Batches : (batch[b].pc # "idle") ~> Ended(b)

\* C39: where every hook and handler call completes, by returning or by
\* throwing, processRequest comes to an end for every request: every operation
\* is visited once and none a second time, and the run ends by returning the
\* response or by the failure of the after-all hook.
C39_ProcessRequestTerminates == []C39_VisitedOnce /\ C39_RunEnds

\* a run of two operations has ended with the response after a handler threw
\* and a hook failed on the way
C39_Witness ==
    \E b \in Batches :
        /\ batch[b].pc = "done"
        /\ Len(batch[b].operations) = 2
        /\ HandlerThrew(b, 1)
        /\ BeforeEachFailed(b, 2)

====
